---- MODULE Spec2Model ----
(***************************************************************************)
(* The compiled ("## Code") functions of the auto-memoization fixtures,    *)
(* run repeatedly against one memo cache array `$`.  One call site hosts   *)
(* one fixture function (fn); every action is one invocation of it.        *)
(* hist records what every invocation so far was given and did.            *)
(***************************************************************************)
EXTENDS Integers, Sequences, FiniteSets, TLC

VARIABLES fn, flags, memo, heap, hist

\* the call site of a compiled function
compilerVars == <<fn, flags, memo, heap, hist>>

\* InteractionTracking: the interactions created so far (index = id), the set
\* getCurrent() returns, the track() and wrapped() calls in progress, the
\* functions wrap() returned, and the API call that finished last.
VARIABLES interactions, current, stack, wrappers, last

trackingVars == <<interactions, current, stack, wrappers, last>>

\* ReactFiberCacheComponent: the Cache objects created so far (index =
\* identity; 0 stands for null), the module's pooledCache, the FiberRoot's
\* pooledCache and pooledCacheLanes, the prevFreshCacheOnStack cursor,
\* CacheContext._currentValue, _suspendedPooledCache, and a record of the
\* pool operation that ran last and of the render in progress.
VARIABLES caches, pooledCache, root, prevFreshCacheOnStack, CacheContext,
          suspendedPooledCache, poolLog

cacheVars == <<caches, pooledCache, root, prevFreshCacheOnStack, CacheContext,
               suspendedPooledCache, poolLog>>

\* ReactDOMEventListener: _enabled, the discrete events queued for replay,
\* the queued continuous event (0 for none), the native events handed to an
\* event system so far, and what the call that ran last did.
VARIABLES enabled, queuedDiscreteEvents, queuedContinuous, handled, eventCall

eventVars == <<enabled, queuedDiscreteEvents, queuedContinuous, handled, eventCall>>

\* ReactDOMFloatServer: whether currentResourceMap is the map of the request
\* (TRUE) or null (FALSE), that map (key -> Resource), and what the call
\* that ran last did.
VARIABLES currentResourceMap, resourceMap, floatCall

floatVars == <<currentResourceMap, resourceMap, floatCall>>

\* NoopRenderer: the pending deferred callback (0 for null), the locals of
\* the flushUnitsOfWork generator in progress, and the calls made so far
\* (invoked[c] = how often the c-th scheduled callback was invoked).
VARIABLES scheduledCallback, flushing, noopLog

noopVars == <<scheduledCallback, flushing, noopLog>>

\* the modules of the repository other than the two above
reactVars == <<cacheVars, eventVars, floatVars, noopVars>>

notCacheVars == <<compilerVars, trackingVars, eventVars, floatVars, noopVars>>

notEventVars == <<compilerVars, trackingVars, cacheVars, floatVars, noopVars>>

notFloatVars == <<compilerVars, trackingVars, cacheVars, eventVars, noopVars>>

notNoopVars == <<compilerVars, trackingVars, cacheVars, eventVars, floatVars>>

vars == <<fn, flags, memo, heap, hist, interactions, current, stack, wrappers, last,
          reactVars>>

\* Number of invocations of the hosted function in one behaviour.
MaxCalls == 3

(***************************************************************************)
(* JavaScript values.  Objects live on the heap and are compared by        *)
(* address; primitives by value; NaN is unequal to itself.                 *)
(***************************************************************************)
JSValue(t, n, s) == [t |-> t, n |-> n, s |-> s]

Undefined == JSValue("undefined", 0, "")

Null == JSValue("null", 0, "")

NaN == JSValue("number", 0, "NaN")

Num(k) == JSValue("number", k, "")

Str(s) == JSValue("string", 0, s)

Ref(a) == JSValue("object", a, "")

Bool(b) == JSValue("boolean", IF b THEN 1 ELSE 0, "")

\* Symbol.for(key): the global symbol registry returns the same symbol for the
\* same key, whoever asks for it.
SymbolFor(key) == JSValue("symbol", 0, key)

MEMO_CACHE_SENTINEL == SymbolFor("react.memo_cache_sentinel")

EARLY_RETURN_SENTINEL == SymbolFor("react.early_return_sentinel")

IsRef(v) == v.t = "object"

\* a === b
StrictEq(a, b) == ~(a.t = "number" /\ a.s = "NaN") /\ a = b

\* a !== b
StrictNe(a, b) == ~StrictEq(a, b)

\* v == null
LooseEqNull(v) == v.t \in {"undefined", "null"}

\* the truthiness test of `if (v)`
ToBoolean(v) ==
    ~ \/ v.t \in {"undefined", "null"}
      \/ (v.t = "number" /\ v.n = 0)
      \/ (v.t = "boolean" /\ v.n = 0)
      \/ (v.t = "string" /\ v.s = "")

(***************************************************************************)
(* The heap: a sequence of objects; an object's address is its index.      *)
(***************************************************************************)
Obj(kind, keys, vals) == [kind |-> kind, keys |-> keys, vals |-> vals]

Alloc(h, o) == Append(h, o)

New(h) == Ref(Len(h))

\* arr.push(v)
Push(h, a, v) == [h EXCEPT ![a].vals = Append(@, v)]

\* obj.k = v
SetProp(h, a, k, v) ==
    IF \E i \in DOMAIN h[a].keys : h[a].keys[i] = k
    THEN [h EXCEPT ![a].vals = [i \in DOMAIN @ |-> IF h[a].keys[i] = k THEN v ELSE @[i]]]
    ELSE [h EXCEPT ![a].keys = Append(@, k), ![a].vals = Append(@, v)]

\* delete obj.k
DeleteProp(h, a, k) ==
    LET keep == SelectSeq([i \in DOMAIN h[a].keys |-> i], LAMBDA i : h[a].keys[i] # k)
    IN [h EXCEPT ![a].keys = [j \in DOMAIN keep |-> h[a].keys[keep[j]]],
                 ![a].vals = [j \in DOMAIN keep |-> h[a].vals[keep[j]]]]

\* The structure of a value: objects are expanded, so that two values have the
\* same Shape exactly when they are structurally (deeply) equal.
RECURSIVE Shape(_, _)
Shape(h, v) ==
    IF IsRef(v)
    THEN [kind |-> h[v.n].kind, keys |-> h[v.n].keys,
          vals |-> [i \in DOMAIN h[v.n].vals |-> Shape(h, h[v.n].vals[i])]]
    ELSE v

(***************************************************************************)
(* The memo cache `$`: slots 0..n-1.  Reading past the end of a JavaScript *)
(* array yields undefined and writing past it grows the array.             *)
(***************************************************************************)
NoCache == [i \in {} |-> Undefined]

useMemoCache(stored, size) ==
    IF stored = NoCache THEN [i \in 0 .. size - 1 |-> MEMO_CACHE_SENTINEL] ELSE stored

Get(c, i) == IF i \in DOMAIN c THEN c[i] ELSE Undefined

Put(c, i, v) == [j \in DOMAIN c \cup {i} |-> IF j = i THEN v ELSE c[j]]

(***************************************************************************)
(* The outcome of one invocation, and what it did:                         *)
(*   was    the cache array as useMemoCache handed it out,                 *)
(*   rd/wr  the cache indices read / written (with the writing scope),     *)
(*   ran    the scopes whose body started, st the scopes that stored,      *)
(*   eff    the external calls and side effects, in execution order.       *)
(***************************************************************************)
Return(v) == [k |-> "return", v |-> v]

Throw(v) == [k |-> "throw", v |-> v]

Result(c0, c, h, o, rd, wr, ran, st, eff) ==
    [was |-> c0, memo |-> c, heap |-> h, out |-> o,
     rd |-> rd, wr |-> wr, ran |-> ran, st |-> st, eff |-> eff]

\* ---- jsx-namespaced-name: Component(props) ----
\* (variant: the dependency snapshot `$[0] = props.version` is not stored)
jsx_Component_no_snapshot(memo0, heap0, props) ==
    LET c0 == useMemoCache(memo0, 2)
    IN IF StrictNe(Get(c0, 0), props.version)
       THEN LET h1 == Alloc(heap0, Obj("element", <<"type", "protocol:version">>,
                                       <<Str("xml:http"), props.version>>))
                t0 == New(h1)
                c2 == Put(c0, 1, t0)
            IN Result(c0, c2, h1, Return(t0), {0}, {<<1, "s0">>},
                      {"s0"}, {"s0"}, <<"createElement">>)
       ELSE Result(c0, c0, heap0, Return(Get(c0, 1)), {0, 1}, {}, {}, {}, <<>>)

jsx_Component(memo0, heap0, props) ==
    LET c0 == useMemoCache(memo0, 2)
    IN IF StrictNe(Get(c0, 0), props.version)
       THEN LET h1 == Alloc(heap0, Obj("element", <<"type", "protocol:version">>,
                                       <<Str("xml:http"), props.version>>))
                t0 == New(h1)
                c1 == Put(c0, 0, props.version)
                c2 == Put(c1, 1, t0)
            IN Result(c0, c2, h1, Return(t0), {0}, {<<0, "s0">>, <<1, "s0">>},
                      {"s0"}, {"s0"}, <<"createElement">>)
       ELSE Result(c0, c0, heap0, Return(Get(c0, 1)), {0, 1}, {}, {}, {}, <<>>)

\* ---- labeled-break-within-label-switch: useHook(cond) ----
\* (variant: the renamed label denotes the switch, so `break bb3` leaves the case)
useHook_break_leaves_case(memo0, heap0, cond) ==
    LET c0 == useMemoCache(memo0, 2)
    IN IF StrictNe(Get(c0, 0), cond)
       THEN LET h1 == Alloc(heap0, Obj("array", <<>>, <<>>))
                log == New(h1)
                h2 == Push(h1, log.n, Str("@A"))
                h4 == IF ToBoolean(cond) THEN h2
                      ELSE Push(Push(h2, log.n, Str("@B")), log.n, Str("@C"))
            IN Result(c0, Put(Put(c0, 0, cond), 1, log), h4, Return(log), {0},
                      {<<0, "s0">>, <<1, "s0">>}, {"s0"}, {"s0"},
                      <<"log.push(@A)">>
                        \o (IF ToBoolean(cond) THEN <<"break bb3">>
                            ELSE <<"log.push(@B)", "log.push(@C)">>))
       ELSE Result(c0, c0, heap0, Return(Get(c0, 1)), {0, 1}, {}, {}, {}, <<>>)

\* the source function of the same fixture ("## Input"), with its label bb0
useHook_Input(heap0, cond) ==
    LET h1 == Alloc(heap0, Obj("array", <<>>, <<>>))
        log == New(h1)
        h2 == Push(h1, log.n, Str("@A"))
        \* bb0: { if (cond) break bb0; log.push(`@B`) }
        h3 == IF ToBoolean(cond) THEN h2 ELSE Push(h2, log.n, Str("@B"))
        h4 == Push(h3, log.n, Str("@C"))
    IN [heap |-> h4, out |-> Return(log)]

useHook(memo0, heap0, cond) ==
    LET c0 == useMemoCache(memo0, 2)
    IN IF StrictNe(Get(c0, 0), cond)
       THEN LET h1 == Alloc(heap0, Obj("array", <<>>, <<>>))
                log == New(h1)
                \* switch (CONST_STRING0) { case CONST_STRING0: ... } always enters the case
                h2 == Push(h1, log.n, Str("@A"))
                \* bb3: { if (cond) break bb3; log.push(`@B`) }
                h3 == IF ToBoolean(cond) THEN h2 ELSE Push(h2, log.n, Str("@B"))
                h4 == Push(h3, log.n, Str("@C"))
                c1 == Put(c0, 0, cond)
                c2 == Put(c1, 1, log)
            IN Result(c0, c2, h4, Return(log), {0}, {<<0, "s0">>, <<1, "s0">>},
                      {"s0"}, {"s0"},
                      <<"log.push(@A)">>
                        \o (IF ToBoolean(cond) THEN <<"break bb3">> ELSE <<"log.push(@B)">>)
                        \o <<"log.push(@C)">>)
       ELSE Result(c0, c0, heap0, Return(Get(c0, 1)), {0, 1}, {}, {}, {}, <<>>)

\* ---- hoisting-within-lambda, first fixture: Component({}) ----
\* calling `outer`: inner() returns x, which is 3
CallOuter(h, f) ==
    IF IsRef(f) /\ h[f.n].kind = "function" THEN Return(Num(3)) ELSE Throw(Str("TypeError"))

hoisting1_Component(memo0, heap0) ==
    LET c0 == useMemoCache(memo0, 2)
        miss0 == Get(c0, 0) = MEMO_CACHE_SENTINEL
        h1 == IF miss0 THEN Alloc(heap0, Obj("function", <<"name">>, <<Str("outer")>>)) ELSE heap0
        t1 == IF miss0 THEN New(h1) ELSE Get(c0, 0)
        c1 == IF miss0 THEN Put(c0, 0, t1) ELSE c0
        outer == t1
        miss1 == Get(c1, 1) = MEMO_CACHE_SENTINEL
        call == CallOuter(h1, outer)
        rd == {0, 1}
        wr0 == IF miss0 THEN {<<0, "s0">>} ELSE {}
        ran0 == IF miss0 THEN {"s0"} ELSE {}
    IN IF miss1
       THEN IF call.k = "throw"
            THEN Result(c0, c1, h1, call, rd, wr0, ran0 \cup {"s1"}, ran0, <<"outer()">>)
            ELSE LET h2 == Alloc(h1, Obj("element", <<"type", "children">>, <<Str("div"), call.v>>))
                     t2 == New(h2)
                     c2 == Put(c1, 1, t2)
                 IN Result(c0, c2, h2, Return(t2), rd, wr0 \cup {<<1, "s1">>},
                           ran0 \cup {"s1"}, ran0 \cup {"s1"}, <<"outer()", "createElement">>)
       ELSE Result(c0, c1, h1, Return(Get(c1, 1)), rd, wr0, ran0, ran0, <<>>)

\* ---- hoisting-within-lambda, second fixture: Component(props) ----
\* (variant: the guard joins the two comparisons with && instead of ||)
hoisting2_Component_and(memo0, heap0, props) ==
    LET c0 == useMemoCache(memo0, 3)
    IN IF StrictNe(Get(c0, 0), props.a) /\ StrictNe(Get(c0, 1), props.b)
       THEN LET h1 == Alloc(heap0, Obj("object", <<"a", "b">>, <<props.a, props.b>>))
                x == New(h1)
                h2 == DeleteProp(h1, x.n, "b")
                c3 == Put(Put(Put(c0, 0, props.a), 1, props.b), 2, x)
            IN Result(c0, c3, h2, Return(x), {0, 1},
                      {<<0, "s0">>, <<1, "s0">>, <<2, "s0">>}, {"s0"}, {"s0"},
                      <<"delete x.b">>)
       ELSE Result(c0, c0, heap0, Return(Get(c0, 2)), {0, 1, 2}, {}, {}, {}, <<>>)

hoisting2_Component(memo0, heap0, props) ==
    LET c0 == useMemoCache(memo0, 3)
    IN IF StrictNe(Get(c0, 0), props.a) \/ StrictNe(Get(c0, 1), props.b)
       THEN LET h1 == Alloc(heap0, Obj("object", <<"a", "b">>, <<props.a, props.b>>))
                x == New(h1)
                h2 == DeleteProp(h1, x.n, "b")
                c1 == Put(c0, 0, props.a)
                c2 == Put(c1, 1, props.b)
                c3 == Put(c2, 2, x)
            IN Result(c0, c3, h2, Return(x),
                      IF StrictNe(Get(c0, 0), props.a) THEN {0} ELSE {0, 1},
                      {<<0, "s0">>, <<1, "s0">>, <<2, "s0">>}, {"s0"}, {"s0"},
                      <<"delete x.b">>)
       ELSE Result(c0, c0, heap0, Return(Get(c0, 2)), {0, 1, 2}, {}, {}, {}, <<>>)

\* ---- try-catch-with-return, first fixture: Component(props) ----
\* (variant: a cache hit does not test t0 and falls through to `return x`)
trycatch1_Component_no_replay(memo0, heap0, sc, ti) ==
    LET c0 == useMemoCache(memo0, 2)
    IN IF Get(c0, 0) = MEMO_CACHE_SENTINEL
       THEN LET h1 == Alloc(heap0, Obj("array", <<>>, <<>>))
                x == New(h1)
                h2 == Alloc(h1, Obj("object", <<>>, <<>>))
                h3 == IF sc = "copies" THEN Alloc(h2, Obj("object", <<>>, <<>>)) ELSE h2
                y == IF sc = "copies" THEN New(h3) ELSE Null
                caught == sc = "throws" \/ (~LooseEqNull(y) /\ ti = "throws")
                h4 == IF ~caught /\ ~LooseEqNull(y) THEN Push(h3, x.n, y) ELSE h3
                t0 == IF caught THEN Null
                      ELSE IF LooseEqNull(y) THEN Undefined
                      ELSE EARLY_RETURN_SENTINEL
                c2 == Put(Put(c0, 0, x), 1, t0)
                eff == <<"shallowCopy">>
                         \o (IF sc = "throws" THEN <<"catch">>
                             ELSE IF LooseEqNull(y) THEN <<"break bb26">>
                             ELSE IF ti = "throws" THEN <<"throwInput", "catch">>
                             ELSE <<"throwInput", "x.push">>)
            IN Result(c0, c2, h4,
                      IF StrictNe(t0, EARLY_RETURN_SENTINEL) THEN Return(t0) ELSE Return(x),
                      {0}, {<<0, "s0">>, <<1, "s0">>}, {"s0"}, {"s0"}, eff)
       ELSE Result(c0, c0, heap0, Return(Get(c0, 0)), {0, 1}, {}, {}, {}, <<>>)

\* shallowCopy and throwInput are imported: sc and ti say what they do when called.
trycatch1_Component(memo0, heap0, sc, ti) ==
    LET c0 == useMemoCache(memo0, 2)
    IN IF Get(c0, 0) = MEMO_CACHE_SENTINEL
       THEN LET h1 == Alloc(heap0, Obj("array", <<>>, <<>>))
                x == New(h1)
                \* the argument {} of shallowCopy
                h2 == Alloc(h1, Obj("object", <<>>, <<>>))
                h3 == IF sc = "copies" THEN Alloc(h2, Obj("object", <<>>, <<>>)) ELSE h2
                y == IF sc = "copies" THEN New(h3) ELSE Null
                caught == sc = "throws" \/ (~LooseEqNull(y) /\ ti = "throws")
                h4 == IF ~caught /\ ~LooseEqNull(y) THEN Push(h3, x.n, y) ELSE h3
                t0 == IF caught THEN Null
                      ELSE IF LooseEqNull(y) THEN Undefined
                      ELSE EARLY_RETURN_SENTINEL
                c1 == Put(c0, 0, x)
                c2 == Put(c1, 1, t0)
                eff == <<"shallowCopy">>
                         \o (IF sc = "throws" THEN <<"catch">>
                             ELSE IF LooseEqNull(y) THEN <<"break bb26">>
                             ELSE IF ti = "throws" THEN <<"throwInput", "catch">>
                             ELSE <<"throwInput", "x.push">>)
            IN Result(c0, c2, h4,
                      IF StrictNe(t0, EARLY_RETURN_SENTINEL) THEN Return(t0) ELSE Return(x),
                      {0}, {<<0, "s0">>, <<1, "s0">>}, {"s0"}, {"s0"}, eff)
       ELSE LET x == Get(c0, 0)
                t0 == Get(c0, 1)
            IN Result(c0, c0, heap0,
                      IF StrictNe(t0, EARLY_RETURN_SENTINEL) THEN Return(t0) ELSE Return(x),
                      {0, 1}, {}, {}, {}, <<>>)

\* the source function of the same fixture ("## Input")
trycatch1_Input(heap0, sc, ti) ==
    LET h1 == Alloc(heap0, Obj("array", <<>>, <<>>))
        x == New(h1)
        h2 == Alloc(h1, Obj("object", <<>>, <<>>))
        h3 == IF sc = "copies" THEN Alloc(h2, Obj("object", <<>>, <<>>)) ELSE h2
        y == IF sc = "copies" THEN New(h3) ELSE Null
    IN IF sc = "throws" THEN [heap |-> h2, out |-> Return(Null)]
       ELSE IF LooseEqNull(y) THEN [heap |-> h3, out |-> Return(Undefined)]
       ELSE IF ti = "throws" THEN [heap |-> h3, out |-> Return(Null)]
       ELSE [heap |-> Push(h3, x.n, y), out |-> Return(x)]

\* ---- obj-mutated-after-if-else-with-alias: foo(a, b, c, d) ----
\* (variant: the leading someObj() is placed inside the reactive scope)
foo_leading_call_in_scope(memo0, heap0, a, so) ==
    LET c0 == useMemoCache(memo0, 2)
    IN IF StrictNe(Get(c0, 0), a)
       THEN IF so = "throws"
            THEN Result(c0, c0, heap0, Throw(Str("someObj")), {0}, {}, {"s0"}, {}, <<"someObj">>)
            ELSE LET h2 == Alloc(Alloc(heap0, Obj("object", <<>>, <<>>)), Obj("object", <<>>, <<>>))
                     x == New(h2)
                 IN Result(c0, Put(Put(c0, 0, a), 1, x), SetProp(h2, x.n, "f", Num(1)),
                           Return(x), {0}, {<<0, "s0">>, <<1, "s0">>},
                           {"s0"}, {"s0"}, <<"someObj", "someObj", "x.f = 1">>)
       ELSE Result(c0, c0, heap0, Return(Get(c0, 1)), {0, 1}, {}, {}, {}, <<>>)

\* someObj is a free function: so says whether a call of it returns or throws.
foo(memo0, heap0, a, so) ==
    LET c0 == useMemoCache(memo0, 2)
    IN IF so = "throws"
       THEN Result(c0, c0, heap0, Throw(Str("someObj")), {}, {}, {}, {}, <<"someObj">>)
       ELSE LET h1 == Alloc(heap0, Obj("object", <<>>, <<>>))
            IN IF StrictNe(Get(c0, 0), a)
               THEN LET \* either branch of `if (a)` leaves x = someObj()
                        h2 == Alloc(h1, Obj("object", <<>>, <<>>))
                        x == New(h2)
                        h3 == SetProp(h2, x.n, "f", Num(1))
                        c1 == Put(c0, 0, a)
                        c2 == Put(c1, 1, x)
                    IN Result(c0, c2, h3, Return(x), {0}, {<<0, "s0">>, <<1, "s0">>},
                              {"s0"}, {"s0"}, <<"someObj", "someObj", "x.f = 1">>)
               ELSE Result(c0, c0, h1, Return(Get(c0, 1)), {0, 1}, {}, {}, {}, <<"someObj">>)

\* the source function of the same fixture ("## Input")
foo_Input(heap0, a, so) ==
    IF so = "throws"
    THEN [heap |-> heap0, out |-> Throw(Str("someObj"))]
    ELSE LET h1 == Alloc(heap0, Obj("object", <<>>, <<>>))
             h2 == Alloc(h1, Obj("object", <<>>, <<>>))
             x == New(h2)
         IN [heap |-> SetProp(h2, x.n, "f", Num(1)), out |-> Return(x)]

\* ---- try-catch-with-return, second fixture: Component(props) ----
\* const [x] = v: the first item of an array; a value that is not iterable throws
FirstItem(h, v) ==
    IF IsRef(v) /\ h[v.n].kind = "array"
    THEN Return(IF Len(h[v.n].vals) > 0 THEN h[v.n].vals[1] ELSE Undefined)
    ELSE Throw(Str("TypeError"))

\* (variant: the scope has no dependency and is guarded by the uninitialized marker)
trycatch2_Component_no_dependency(memo0, heap0, y0) ==
    LET c0 == useMemoCache(memo0, 2)
        miss == Get(c0, 1) = MEMO_CACHE_SENTINEL
        h1 == IF miss /\ StrictEq(y0, Undefined)
              THEN Alloc(heap0, Obj("array", <<>>, <<Str("default")>>)) ELSE heap0
        t1 == IF miss THEN (IF StrictEq(y0, Undefined) THEN New(h1) ELSE y0) ELSE Get(c0, 1)
    IN Result(c0, IF miss THEN Put(Put(c0, 0, y0), 1, t1) ELSE c0, h1, FirstItem(h1, t1),
              {1}, IF miss THEN {<<0, "s0">>, <<1, "s0">>} ELSE {},
              IF miss THEN {"s0"} ELSE {}, IF miss THEN {"s0"} ELSE {}, <<>>)

\* the source function of the same fixture ("## Input"):
\* const [[x] = ["default"]] = props.y; return x
trycatch2_Input(heap0, y0) ==
    LET h1 == IF StrictEq(y0, Undefined)
              THEN Alloc(heap0, Obj("array", <<>>, <<Str("default")>>)) ELSE heap0
        v == IF StrictEq(y0, Undefined) THEN New(h1) ELSE y0
    IN [heap |-> h1, out |-> FirstItem(h1, v)]

\* y0 is the first item of props.y
trycatch2_Component(memo0, heap0, y0) ==
    LET c0 == useMemoCache(memo0, 2)
        t0 == y0
        miss == StrictNe(Get(c0, 0), t0)
        h1 == IF miss /\ StrictEq(t0, Undefined)
              THEN Alloc(heap0, Obj("array", <<>>, <<Str("default")>>)) ELSE heap0
        t1 == IF miss THEN (IF StrictEq(t0, Undefined) THEN New(h1) ELSE t0) ELSE Get(c0, 1)
        c2 == IF miss THEN Put(Put(c0, 0, t0), 1, t1) ELSE c0
    IN Result(c0, c2, h1, FirstItem(h1, t1),
              IF miss THEN {0} ELSE {0, 1},
              IF miss THEN {<<0, "s0">>, <<1, "s0">>} ELSE {},
              IF miss THEN {"s0"} ELSE {}, IF miss THEN {"s0"} ELSE {}, <<>>)

\* ---- uninitialized-declaration-in-reactive-scope: Component(props) ----
\* mutate and foo are free functions: mu and fo say whether a call returns or throws.
uninitialized_Component(memo0, heap0, mu, fo) ==
    LET c0 == useMemoCache(memo0, 1)
    IN IF Get(c0, 0) = MEMO_CACHE_SENTINEL
       THEN IF mu = "throws"
            THEN Result(c0, c0, heap0, Throw(Str("mutate")), {0}, {}, {"s0"}, {}, <<"mutate">>)
            ELSE LET h1 == Alloc(heap0, Obj("object", <<>>, <<>>))
                     x == New(h1)
                 IN IF fo = "throws"
                    THEN Result(c0, c0, h1, Throw(Str("foo")), {0}, {}, {"s0"}, {},
                                <<"mutate", "foo">>)
                    ELSE LET h2 == Alloc(h1, Obj("array", <<>>, <<Undefined, x>>))
                             t0 == New(h2)
                             c1 == Put(c0, 0, t0)
                         IN Result(c0, c1, h2, Return(t0), {0}, {<<0, "s0">>}, {"s0"}, {"s0"},
                                   <<"mutate", "foo", "createArray">>)
       ELSE Result(c0, c0, heap0, Return(Get(c0, 0)), {0}, {}, {}, {}, <<>>)

\* ---- do-while fixture: Component(props) ----
\* (variant: `$[0] = x` is emitted before the call mutate(x))
dowhile_Component_store_first(memo0, heap0, mu) ==
    LET c0 == useMemoCache(memo0, 1)
    IN IF Get(c0, 0) = MEMO_CACHE_SENTINEL
       THEN LET h1 == Alloc(heap0, Obj("array", <<>>, <<Num(1), Num(2), Num(3)>>))
                x == New(h1)
                c1 == Put(c0, 0, x)
            IN IF mu = "throws"
               THEN Result(c0, c1, h1, Throw(Str("mutate")), {0}, {<<0, "s0">>}, {"s0"}, {"s0"},
                           <<"createArray", "mutate">>)
               ELSE Result(c0, c1, SetProp(h1, x.n, "wat0", Str("joe")), Return(x), {0},
                           {<<0, "s0">>}, {"s0"}, {"s0"}, <<"createArray", "mutate">>)
       ELSE Result(c0, c0, heap0, Return(Get(c0, 0)), {0}, {}, {}, {}, <<>>)

dowhile_Component(memo0, heap0, mu) ==
    LET c0 == useMemoCache(memo0, 1)
    IN IF Get(c0, 0) = MEMO_CACHE_SENTINEL
       THEN LET h1 == Alloc(heap0, Obj("array", <<>>, <<Num(1), Num(2), Num(3)>>))
                x == New(h1)
            IN IF mu = "throws"
               THEN Result(c0, c0, h1, Throw(Str("mutate")), {0}, {}, {"s0"}, {},
                           <<"createArray", "mutate">>)
               ELSE LET h2 == SetProp(h1, x.n, "wat0", Str("joe"))
                        c1 == Put(c0, 0, x)
                    IN Result(c0, c1, h2, Return(x), {0}, {<<0, "s0">>}, {"s0"}, {"s0"},
                              <<"createArray", "mutate">>)
       ELSE Result(c0, c0, heap0, Return(Get(c0, 0)), {0}, {}, {}, {}, <<>>)

\* ---- capture_mutate-across-fns: component(a) ----
\* (variant: the scope ends after `z = { a }`; f0 is created and called after it)
capture_mutate_component_split(memo0, heap0, a) ==
    LET c0 == useMemoCache(memo0, 2)
        miss == StrictNe(Get(c0, 0), a)
        h1 == IF miss THEN Alloc(heap0, Obj("object", <<"a">>, <<a>>)) ELSE heap0
        z == IF miss THEN New(h1) ELSE Get(c0, 1)
        c2 == IF miss THEN Put(Put(c0, 0, a), 1, z) ELSE c0
        h2 == Alloc(h1, Obj("function", <<"name", "z">>, <<Str("f0"), z>>))
        h3 == Alloc(h2, Obj("function", <<"name", "z">>, <<Str("f1"), z>>))
    IN IF IsRef(z)
       THEN Result(c0, c2, SetProp(h3, z.n, "b", Num(1)), Return(z),
                   IF miss THEN {0} ELSE {0, 1},
                   IF miss THEN {<<0, "s0">>, <<1, "s0">>} ELSE {},
                   IF miss THEN {"s0"} ELSE {}, IF miss THEN {"s0"} ELSE {},
                   <<"f0()", "f1()", "z.b = 1">>)
       ELSE Result(c0, c2, h3, Throw(Str("TypeError")),
                   IF miss THEN {0} ELSE {0, 1}, {}, {}, {}, <<"f0()", "f1()">>)

capture_mutate_component(memo0, heap0, a) ==
    LET c0 == useMemoCache(memo0, 2)
    IN IF StrictNe(Get(c0, 0), a)
       THEN LET h1 == Alloc(heap0, Obj("object", <<"a">>, <<a>>))
                z == New(h1)
                h2 == Alloc(h1, Obj("function", <<"name", "z">>, <<Str("f0"), z>>))
                \* f0() creates f1 and calls it: z.b = 1
                h3 == Alloc(h2, Obj("function", <<"name", "z">>, <<Str("f1"), z>>))
                h4 == SetProp(h3, z.n, "b", Num(1))
                c1 == Put(c0, 0, a)
                c2 == Put(c1, 1, z)
            IN Result(c0, c2, h4, Return(z), {0}, {<<0, "s0">>, <<1, "s0">>}, {"s0"}, {"s0"},
                      <<"f0()", "f1()", "z.b = 1">>)
       ELSE Result(c0, c0, heap0, Return(Get(c0, 1)), {0, 1}, {}, {}, {}, <<>>)

\* ---- capturing-function-decl, first fixture: component(a) ----
\* t = {a} has no method foo of its own: pf says what t.foo() does (it throws a
\* TypeError unless the prototype provides foo).
capturing_decl_component_store_first(memo0, heap0, a, pf) ==
    LET c0 == useMemoCache(memo0, 2)
    IN IF StrictNe(Get(c0, 0), a)
       THEN LET h1 == Alloc(heap0, Obj("object", <<"a">>, <<a>>))
                t == New(h1)
                h2 == Alloc(h1, Obj("function", <<"name", "t">>, <<Str("x"), t>>))
                c1 == Put(c0, 0, a)
            IN IF pf = "throws"
               THEN Result(c0, c1, h2, Throw(Str("TypeError")), {0}, {<<0, "s0">>},
                           {"s0"}, {}, <<"x(t)", "t.foo()">>)
               ELSE LET h3 == SetProp(h2, t.n, "foo called", Num(1))
                        c2 == Put(c1, 1, t)
                    IN Result(c0, c2, h3, Return(t), {0}, {<<0, "s0">>, <<1, "s0">>},
                              {"s0"}, {"s0"}, <<"x(t)", "t.foo()">>)
       ELSE Result(c0, c0, heap0, Return(Get(c0, 1)), {0, 1}, {}, {}, {}, <<>>)

capturing_decl_component(memo0, heap0, a, pf) ==
    LET c0 == useMemoCache(memo0, 2)
    IN IF StrictNe(Get(c0, 0), a)
       THEN LET h1 == Alloc(heap0, Obj("object", <<"a">>, <<a>>))
                t == New(h1)
                h2 == Alloc(h1, Obj("function", <<"name", "t">>, <<Str("x"), t>>))
            IN IF pf = "throws"
               THEN Result(c0, c0, h2, Throw(Str("TypeError")), {0}, {}, {"s0"}, {},
                           <<"x(t)", "t.foo()">>)
               ELSE LET h3 == SetProp(h2, t.n, "foo called", Num(1))
                        c1 == Put(c0, 0, a)
                        c2 == Put(c1, 1, t)
                    IN Result(c0, c2, h3, Return(t), {0}, {<<0, "s0">>, <<1, "s0">>},
                              {"s0"}, {"s0"}, <<"x(t)", "t.foo()">>)
       ELSE Result(c0, c0, heap0, Return(Get(c0, 1)), {0, 1}, {}, {}, {}, <<>>)

\* makeObject_Primitives() of shared-runtime, as the fixtures' eval output shows it
makeObject_Primitives(h) ==
    Alloc(h, Obj("object", <<"a", "b", "c">>, <<Num(0), Str("value1"), JSValue("boolean", 1, "")>>))

\* ---- capturing-function-decl, second fixture: Component(props) ----
preserve_false_Component(memo0, heap0) ==
    LET c0 == useMemoCache(memo0, 2)
    IN IF Get(c0, 0) = MEMO_CACHE_SENTINEL
       THEN LET h1 == makeObject_Primitives(heap0)
                t7 == New(h1)
                object == t7
                c1 == Put(c0, 0, object)
                c2 == Put(c1, 1, t7)
            IN Result(c0, c2, h1, Return(object), {0}, {<<0, "s0">>, <<1, "s0">>},
                      {"s0"}, {"s0"}, <<"makeObject_Primitives", "identity">>)
       ELSE Result(c0, c0, heap0, Return(Get(c0, 0)), {0, 1}, {}, {}, {}, <<>>)

\* ---- useMemo-maybe-modified-later-preserve-memoization-guarantees ----
\* (variant: the useMemo callback is inlined without a scope of its own)
preserve_true_Component_inlined(memo0, heap0) ==
    LET c0 == useMemoCache(memo0, 1)
        h1 == makeObject_Primitives(heap0)
        object == New(h1)
    IN Result(c0, c0, h1, Return(object), {}, {}, {}, {},
              <<"makeObject_Primitives", "identity">>)

preserve_true_Component(memo0, heap0) ==
    LET c0 == useMemoCache(memo0, 1)
        miss == Get(c0, 0) = MEMO_CACHE_SENTINEL
        h1 == IF miss THEN makeObject_Primitives(heap0) ELSE heap0
        t1 == IF miss THEN New(h1) ELSE Get(c0, 0)
        c1 == IF miss THEN Put(c0, 0, t1) ELSE c0
        object == t1
    IN Result(c0, c1, h1, Return(object), {0},
              IF miss THEN {<<0, "s0">>} ELSE {},
              IF miss THEN {"s0"} ELSE {}, IF miss THEN {"s0"} ELSE {},
              (IF miss THEN <<"makeObject_Primitives">> ELSE <<>>) \o <<"identity">>)

\* ---- capturing-function-alias-computed-load: bar(a) ----
bar(memo0, heap0, a) ==
    LET c0 == useMemoCache(memo0, 2)
    IN IF StrictNe(Get(c0, 0), a)
       THEN LET h1 == Alloc(heap0, Obj("array", <<>>, <<a>>))
                x == New(h1)
                h2 == Alloc(h1, Obj("object", <<>>, <<>>))
                h3 == Alloc(h2, Obj("function", <<"name", "x">>, <<Str("f0"), x>>))
                \* f0(): y = x[0]
                y == h3[x.n].vals[1]
                c1 == Put(c0, 0, a)
                c2 == Put(c1, 1, y)
            IN Result(c0, c2, h3, Return(y), {0}, {<<0, "s0">>, <<1, "s0">>}, {"s0"}, {"s0"},
                      <<"f0()", "y = x[0]">>)
       ELSE Result(c0, c0, heap0, Return(Get(c0, 1)), {0, 1}, {}, {}, {}, <<>>)

\* ---- @compilationMode(infer) fixture: useFoo(value1, value2) ----
\* hook is the value the hook useNoAlias(value1 + value2) returns
infer_useFoo(memo0, heap0, hook) ==
    LET c0 == useMemoCache(memo0, 2)
        t0 == hook
    IN IF StrictNe(Get(c0, 0), t0)
       THEN LET h1 == Alloc(heap0, Obj("object", <<"value">>, <<t0>>))
                t1 == New(h1)
                c1 == Put(c0, 0, t0)
                c2 == Put(c1, 1, t1)
            IN Result(c0, c2, h1, Return(t1), {0}, {<<0, "s0">>, <<1, "s0">>}, {"s0"}, {"s0"},
                      <<"useNoAlias", "createObject">>)
       ELSE Result(c0, c0, heap0, Return(Get(c0, 1)), {0, 1}, {}, {}, {}, <<"useNoAlias">>)

\* ---- function declaration taking its argument: component(a) ----
\* (variant: the function x has no scope of its own and is created by every
\* execution of the enclosing scope)
nested_component_fresh_x(memo0, heap0, a, pf) ==
    LET c0 == useMemoCache(memo0, 3)
    IN IF StrictNe(Get(c0, 0), a)
       THEN LET h1 == Alloc(heap0, Obj("object", <<"a">>, <<a>>))
                t == New(h1)
                h2 == Alloc(h1, Obj("function", <<"name">>, <<Str("x")>>))
                t0 == New(h2)
                c1 == Put(c0, 2, t0)
            IN IF pf = "throws"
               THEN Result(c0, c1, h2, Throw(Str("TypeError")), {0}, {<<2, "s1">>},
                           {"s0", "s1"}, {"s1"}, <<"x(t)", "p.foo()">>)
               ELSE Result(c0, Put(Put(c1, 0, a), 1, t),
                           SetProp(h2, t.n, "foo called", Num(1)), Return(t), {0},
                           {<<2, "s1">>, <<0, "s0">>, <<1, "s0">>},
                           {"s0", "s1"}, {"s0", "s1"}, <<"x(t)", "p.foo()">>)
       ELSE Result(c0, c0, heap0, Return(Get(c0, 1)), {0, 1}, {}, {}, {}, <<>>)

\* (variant: the function asks useMemoCache for two slots and uses three)
nested_component_two_slots(memo0, heap0, a, pf) ==
    LET c0 == useMemoCache(memo0, 2)
    IN IF StrictNe(Get(c0, 0), a)
       THEN LET h1 == Alloc(heap0, Obj("object", <<"a">>, <<a>>))
                t == New(h1)
                miss1 == Get(c0, 2) = MEMO_CACHE_SENTINEL
                h2 == IF miss1 THEN Alloc(h1, Obj("function", <<"name">>, <<Str("x")>>)) ELSE h1
                t0 == IF miss1 THEN New(h2) ELSE Get(c0, 2)
                c1 == IF miss1 THEN Put(c0, 2, t0) ELSE c0
                wr1 == IF miss1 THEN {<<2, "s1">>} ELSE {}
                s1 == IF miss1 THEN {"s1"} ELSE {}
            IN IF pf = "throws" \/ ~IsRef(t0)
               THEN Result(c0, c1, h2, Throw(Str("TypeError")), {0, 2}, wr1,
                           {"s0"} \cup s1, s1, <<"x(t)", "p.foo()">>)
               ELSE LET c3 == Put(Put(c1, 0, a), 1, t)
                    IN Result(c0, c3, SetProp(h2, t.n, "foo called", Num(1)), Return(t), {0, 2},
                              wr1 \cup {<<0, "s0">>, <<1, "s0">>},
                              {"s0"} \cup s1, {"s0"} \cup s1, <<"x(t)", "p.foo()">>)
       ELSE Result(c0, c0, heap0, Return(Get(c0, 1)), {0, 1}, {}, {}, {}, <<>>)

\* scope s0 is keyed on a; scope s1, nested in its body, holds the function x.
nested_component(memo0, heap0, a, pf) ==
    LET c0 == useMemoCache(memo0, 3)
    IN IF StrictNe(Get(c0, 0), a)
       THEN LET h1 == Alloc(heap0, Obj("object", <<"a">>, <<a>>))
                t == New(h1)
                miss1 == Get(c0, 2) = MEMO_CACHE_SENTINEL
                h2 == IF miss1 THEN Alloc(h1, Obj("function", <<"name">>, <<Str("x")>>)) ELSE h1
                t0 == IF miss1 THEN New(h2) ELSE Get(c0, 2)
                c1 == IF miss1 THEN Put(c0, 2, t0) ELSE c0
                wr1 == IF miss1 THEN {<<2, "s1">>} ELSE {}
                s1 == IF miss1 THEN {"s1"} ELSE {}
            IN IF pf = "throws"
               THEN Result(c0, c1, h2, Throw(Str("TypeError")), {0, 2}, wr1,
                           {"s0"} \cup s1, s1, <<"x(t)", "p.foo()">>)
               ELSE LET h3 == SetProp(h2, t.n, "foo called", Num(1))
                        c2 == Put(c1, 0, a)
                        c3 == Put(c2, 1, t)
                    IN Result(c0, c3, h3, Return(t), {0, 2},
                              wr1 \cup {<<0, "s0">>, <<1, "s0">>},
                              {"s0"} \cup s1, {"s0"} \cup s1, <<"x(t)", "p.foo()">>)
       ELSE Result(c0, c0, heap0, Return(Get(c0, 1)), {0, 1}, {}, {}, {}, <<>>)

\* ---- @validatePreserveExistingMemoizationGuarantees fixture: useFoo() ----
callback_useFoo(memo0, heap0) ==
    LET c0 == useMemoCache(memo0, 2)
        miss0 == Get(c0, 0) = MEMO_CACHE_SENTINEL
        h1 == IF miss0 THEN Alloc(heap0, Obj("array", <<>>, <<Num(1), Num(2), Num(3)>>)) ELSE heap0
        t0 == IF miss0 THEN New(h1) ELSE Get(c0, 0)
        c1 == IF miss0 THEN Put(c0, 0, t0) ELSE c0
        val == t0
        miss1 == Get(c1, 1) = MEMO_CACHE_SENTINEL
        h2 == IF miss1 THEN Alloc(h1, Obj("function", <<"name", "val">>, <<Str(""), val>>)) ELSE h1
        t1 == IF miss1 THEN New(h2) ELSE Get(c1, 1)
        c2 == IF miss1 THEN Put(c1, 1, t1) ELSE c1
        s == (IF miss0 THEN {"s0"} ELSE {}) \cup (IF miss1 THEN {"s1"} ELSE {})
    IN Result(c0, c2, h2, Return(t1), {0, 1},
              (IF miss0 THEN {<<0, "s0">>} ELSE {}) \cup (IF miss1 THEN {<<1, "s1">>} ELSE {}),
              s, s,
              (IF miss0 THEN <<"createArray">> ELSE <<>>)
                \o (IF miss1 THEN <<"createFunction">> ELSE <<>>))

\* ---- useState fixture: Component(props) ----
\* state is what useState(null) returns in this render
state_Component(memo0, heap0, state) ==
    LET c0 == useMemoCache(memo0, 2)
    IN IF StrictNe(Get(c0, 0), state)
       THEN LET h1 == Alloc(heap0, Obj("array", <<>>, <<state>>))
                t0 == New(h1)
                c1 == Put(c0, 0, state)
                c2 == Put(c1, 1, t0)
            IN Result(c0, c2, h1, Return(t0), {0}, {<<0, "s0">>, <<1, "s0">>}, {"s0"}, {"s0"},
                      <<"useState", "createArray">>)
       ELSE Result(c0, c0, heap0, Return(Get(c0, 1)), {0, 1}, {}, {}, {}, <<"useState">>)

\* ---- @enableEmitFreeze @instrumentForget fixture: useFoo(props) ----
\* makeReadOnly(t0, "useFoo") of react-forget-runtime: the dev-only read-only
\* guard is put on the object itself, and the object is handed back.
makeReadOnly(h, t0) ==
    IF IsRef(t0) THEN [h EXCEPT ![t0.n].kind = "readonly"] ELSE h

\* (variant: the cached value is a read-only wrapper around t0, a second object)
freeze_useFoo_wrapper(memo0, heap0, x, build, fo) ==
    LET c0 == useMemoCache(memo0, 2)
        counter == IF build.dev /\ build.instrument THEN <<"useRenderCounter">> ELSE <<>>
    IN IF StrictNe(Get(c0, 0), x)
       THEN IF fo = "throws"
            THEN Result(c0, c0, heap0, Throw(Str("foo")), {0}, {}, {"s0"}, {}, counter \o <<"foo">>)
            ELSE LET h1 == Alloc(heap0, Obj("object", <<"from">>, <<x>>))
                     t0 == New(h1)
                     h2 == IF build.dev
                           THEN Alloc(h1, Obj("readonly", <<"target">>, <<t0>>)) ELSE h1
                 IN Result(c0, Put(Put(c0, 0, x), 1, New(h2)), h2, Return(t0), {0},
                           {<<0, "s0">>, <<1, "s0">>}, {"s0"}, {"s0"},
                           counter \o <<"foo">> \o (IF build.dev THEN <<"makeReadOnly">> ELSE <<>>))
       ELSE Result(c0, c0, heap0, Return(Get(c0, 1)), {0, 1}, {}, {}, {}, counter)

freeze_useFoo(memo0, heap0, x, build, fo) ==
    LET c0 == useMemoCache(memo0, 2)
        counter == IF build.dev /\ build.instrument THEN <<"useRenderCounter">> ELSE <<>>
    IN IF StrictNe(Get(c0, 0), x)
       THEN IF fo = "throws"
            THEN Result(c0, c0, heap0, Throw(Str("foo")), {0}, {}, {"s0"}, {}, counter \o <<"foo">>)
            ELSE LET h1 == Alloc(heap0, Obj("object", <<"from">>, <<x>>))
                     t0 == New(h1)
                     c1 == Put(c0, 0, x)
                     h2 == IF build.dev THEN makeReadOnly(h1, t0) ELSE h1
                     c2 == Put(c1, 1, t0)
                 IN Result(c0, c2, h2, Return(t0), {0}, {<<0, "s0">>, <<1, "s0">>},
                           {"s0"}, {"s0"},
                           counter \o <<"foo">> \o (IF build.dev THEN <<"makeReadOnly">> ELSE <<>>))
       ELSE Result(c0, c0, heap0, Return(Get(c0, 1)), {0, 1}, {}, {}, {}, counter)

\* ---- infer-function-assignment: const Component = (props) => ... ----
assignment_Component(memo0, heap0) ==
    LET c0 == useMemoCache(memo0, 1)
    IN IF Get(c0, 0) = MEMO_CACHE_SENTINEL
       THEN LET h1 == Alloc(heap0, Obj("element", <<"type">>, <<Str("div")>>))
                t0 == New(h1)
                c1 == Put(c0, 0, t0)
            IN Result(c0, c1, h1, Return(t0), {0}, {<<0, "s0">>}, {"s0"}, {"s0"},
                      <<"createElement">>)
       ELSE Result(c0, c0, heap0, Return(Get(c0, 0)), {0}, {}, {}, {}, <<>>)

\* ---- infer-function-forwardRef: React.forwardRef((props) => ...) ----
\* (variant: this compilation numbers the output slot 1 and asks for two slots)
forwardRef_Component_renumbered(memo0, heap0) ==
    LET c0 == useMemoCache(memo0, 2)
    IN IF Get(c0, 1) = MEMO_CACHE_SENTINEL
       THEN LET h1 == Alloc(heap0, Obj("element", <<"type">>, <<Str("div")>>))
                t0 == New(h1)
            IN Result(c0, Put(c0, 1, t0), h1, Return(t0), {1}, {<<1, "s0">>}, {"s0"}, {"s0"},
                      <<"createElement">>)
       ELSE Result(c0, c0, heap0, Return(Get(c0, 1)), {1}, {}, {}, {}, <<>>)

forwardRef_Component(memo0, heap0) ==
    LET c0 == useMemoCache(memo0, 1)
    IN IF Get(c0, 0) = MEMO_CACHE_SENTINEL
       THEN LET h1 == Alloc(heap0, Obj("element", <<"type">>, <<Str("div")>>))
                t0 == New(h1)
                c1 == Put(c0, 0, t0)
            IN Result(c0, c1, h1, Return(t0), {0}, {<<0, "s0">>}, {"s0"}, {"s0"},
                      <<"createElement">>)
       ELSE Result(c0, c0, heap0, Return(Get(c0, 0)), {0}, {}, {}, {}, <<>>)

\* ---- gating-with-hoisted-type-reference: Component ----
\* build.gating is isForgetEnabled_Fixtures(), read once when the module loads:
\* it selects the compiled function or the source function.
gating_Component(memo0, heap0, value, build) ==
    IF build.gating
    THEN LET c0 == useMemoCache(memo0, 2)
         IN IF StrictNe(Get(c0, 0), value)
            THEN LET h1 == Alloc(heap0, Obj("element", <<"type", "children">>,
                                            <<Str("div"), value>>))
                     t1 == New(h1)
                     c1 == Put(c0, 0, value)
                     c2 == Put(c1, 1, t1)
                 IN Result(c0, c2, h1, Return(t1), {0}, {<<0, "s0">>, <<1, "s0">>},
                           {"s0"}, {"s0"}, <<"createElement">>)
            ELSE Result(c0, c0, heap0, Return(Get(c0, 1)), {0, 1}, {}, {}, {}, <<>>)
    ELSE LET h1 == Alloc(heap0, Obj("element", <<"type", "children">>, <<Str("div"), value>>))
         IN Result(memo0, memo0, h1, Return(New(h1)), {}, {}, {}, {}, <<"createElement">>)

(***************************************************************************)
(* InteractionTracking (track, wrap, wrapped, wrapped.cancel) with the one  *)
(* subscriber the test suite subscribes.                                   *)
(***************************************************************************)
\* interactions tracked, functions wrapped and calls nested in one behaviour
MaxInteractions == 2

MaxWrappers == 2

MaxDepth == 2

NoError == "none"

\* A subscriber method of the test: a jest.fn that throws
\* Error('Expected error <method>') while its throwIn<Method> flag is set.
Subscriber(method, throwIn) == IF throwIn THEN method ELSE NoError

\* try { a } finally { b }: an error of b replaces the error of a
Finally(a, b) == IF b # NoError THEN b ELSE a

NoCall == [op |-> "none", err |-> NoError]

TrackingIdle ==
    /\ interactions = <<>>
    /\ current = {}
    /\ stack = <<>>
    /\ wrappers = <<>>
    /\ last = NoCall

\* interaction.__count++ for the interactions of S
Increment(ints, S) ==
    [i \in DOMAIN ints |-> IF i \in S THEN [ints[i] EXCEPT !.count = @ + 1] ELSE ints[i]]

\* interaction.__count-- for the interactions of S, and
\* onInteractionScheduledWorkCompleted(interaction) for each that reaches 0
Decrement(ints, S) ==
    [i \in DOMAIN ints |->
        IF i \in S
        THEN [count |-> ints[i].count - 1,
              completed |-> ints[i].completed + (IF ints[i].count - 1 = 0 THEN 1 ELSE 0)]
        ELSE ints[i]]

\* track(name, timestamp, callback), up to the call of callback: the new
\* interaction joins the current ones; onInteractionTracked and onWorkStarted
\* are called, and an error of theirs does not keep the callback from running
track_enter(ints, cur, tTracked, tStarted) ==
    LET id == Len(ints) + 1
    IN [interactions |-> Append(ints, [count |-> 1, completed |-> 0]),
        current |-> cur \cup {id},
        frame |-> [kind |-> "track", id |-> id, prev |-> cur, ints |-> cur \cup {id},
                   before |-> cur,
                   err |-> Finally(Subscriber("onInteractionTracked", tTracked),
                                   Subscriber("onWorkStarted", tStarted))]]

\* (variant: the count is decremented after onWorkStopped without a finally
\* block, so an error of onWorkStopped skips the decrement)
track_exit_no_finally(ints, frame, cbErr, tStopped) ==
    [interactions |-> IF tStopped THEN ints ELSE Decrement(ints, {frame.id}),
     current |-> frame.prev,
     err |-> Finally(Finally(frame.err, cbErr), Subscriber("onWorkStopped", tStopped))]

\* (variant: the current interactions are restored after onWorkStopped, so an
\* error of onWorkStopped skips the restoration)
track_exit_restore_late(ints, frame, cbErr, tStopped) ==
    [interactions |-> Decrement(ints, {frame.id}),
     current |-> IF tStopped THEN frame.ints ELSE frame.prev,
     err |-> Finally(Finally(frame.err, cbErr), Subscriber("onWorkStopped", tStopped))]

\* track(), after callback returned or threw cbErr
track_exit(ints, frame, cbErr, tStopped) ==
    [interactions |-> Decrement(ints, {frame.id}),
     current |-> frame.prev,
     err |-> Finally(Finally(frame.err, cbErr), Subscriber("onWorkStopped", tStopped))]

\* wrap(callback): onWorkScheduled is called before any count is touched
wrap(ints, cur, ws, tScheduled) ==
    IF tScheduled
    THEN [interactions |-> ints, wrappers |-> ws, err |-> "onWorkScheduled"]
    ELSE [interactions |-> Increment(ints, cur),
          wrappers |-> Append(ws, [ints |-> cur, st |-> "pending"]),
          err |-> NoError]

\* wrapped(), up to the call of callback
wrapped_enter(cur, w, ws, tStarted) ==
    [current |-> ws[w].ints,
     wrappers |-> [ws EXCEPT ![w].st = "running"],
     frame |-> [kind |-> "wrapped", id |-> w, prev |-> cur, ints |-> ws[w].ints,
                before |-> cur, err |-> Subscriber("onWorkStarted", tStarted)]]

\* (variant: every wrapped interaction is reported completed when the wrapped
\* callback finishes, whatever its __count)
wrapped_exit_completes_all(ints, frame, ws, cbErr, tStopped) ==
    [interactions |-> [i \in DOMAIN ints |->
                          IF i \in frame.ints
                          THEN [count |-> ints[i].count - 1, completed |-> ints[i].completed + 1]
                          ELSE ints[i]],
     current |-> frame.prev,
     wrappers |-> [ws EXCEPT ![frame.id].st = "settled"],
     err |-> Finally(Finally(frame.err, cbErr), Subscriber("onWorkStopped", tStopped))]

\* wrapped(), after callback returned or threw cbErr
wrapped_exit(ints, frame, ws, cbErr, tStopped) ==
    [interactions |-> Decrement(ints, frame.ints),
     current |-> frame.prev,
     wrappers |-> [ws EXCEPT ![frame.id].st = "settled"],
     err |-> Finally(Finally(frame.err, cbErr), Subscriber("onWorkStopped", tStopped))]

\* wrapped.cancel()
cancel(ints, w, ws, tCanceled) ==
    [interactions |-> Decrement(ints, ws[w].ints),
     wrappers |-> [ws EXCEPT ![w].st = "settled"],
     err |-> Subscriber("onWorkCanceled", tCanceled)]

CallbackErrors == {NoError, "callback"}

Track ==
    \E tTracked \in BOOLEAN, tStarted \in BOOLEAN :
        /\ fn = "InteractionTracking"
        /\ Len(interactions) < MaxInteractions
        /\ Len(stack) < MaxDepth
        /\ LET r == track_enter(interactions, current, tTracked, tStarted)
           IN /\ interactions' = r.interactions
              /\ current' = r.current
              /\ stack' = Append(stack, r.frame)
              /\ last' = [op |-> "track enter", err |-> r.frame.err]
        /\ UNCHANGED <<wrappers, compilerVars, reactVars>>

TrackReturn ==
    \E cbErr \in CallbackErrors, tStopped \in BOOLEAN :
        /\ fn = "InteractionTracking"
        /\ stack # <<>>
        /\ stack[Len(stack)].kind = "track"
        /\ LET r == track_exit(interactions, stack[Len(stack)], cbErr, tStopped)
           IN /\ interactions' = r.interactions
              /\ current' = r.current
              /\ last' = [op |-> "track", err |-> r.err]
        /\ stack' = SubSeq(stack, 1, Len(stack) - 1)
        /\ UNCHANGED <<wrappers, compilerVars, reactVars>>

Wrap ==
    \E tScheduled \in BOOLEAN :
        /\ fn = "InteractionTracking"
        /\ Len(wrappers) < MaxWrappers
        /\ LET r == wrap(interactions, current, wrappers, tScheduled)
           IN /\ interactions' = r.interactions
              /\ wrappers' = r.wrappers
              /\ last' = [op |-> "wrap", err |-> r.err]
        /\ UNCHANGED <<current, stack, compilerVars, reactVars>>

Wrapped ==
    \E w \in DOMAIN wrappers, tStarted \in BOOLEAN :
        /\ fn = "InteractionTracking"
        /\ wrappers[w].st = "pending"
        /\ Len(stack) < MaxDepth
        /\ LET r == wrapped_enter(current, w, wrappers, tStarted)
           IN /\ current' = r.current
              /\ wrappers' = r.wrappers
              /\ stack' = Append(stack, r.frame)
              /\ last' = [op |-> "wrapped enter", err |-> r.frame.err]
        /\ UNCHANGED <<interactions, compilerVars, reactVars>>

WrappedReturn ==
    \E cbErr \in CallbackErrors, tStopped \in BOOLEAN :
        /\ fn = "InteractionTracking"
        /\ stack # <<>>
        /\ stack[Len(stack)].kind = "wrapped"
        /\ LET r == wrapped_exit(interactions, stack[Len(stack)], wrappers, cbErr, tStopped)
           IN /\ interactions' = r.interactions
              /\ current' = r.current
              /\ wrappers' = r.wrappers
              /\ last' = [op |-> "wrapped", err |-> r.err]
        /\ stack' = SubSeq(stack, 1, Len(stack) - 1)
        /\ UNCHANGED <<compilerVars, reactVars>>

Cancel ==
    \E w \in DOMAIN wrappers, tCanceled \in BOOLEAN :
        /\ fn = "InteractionTracking"
        /\ wrappers[w].st = "pending"
        /\ LET r == cancel(interactions, w, wrappers, tCanceled)
           IN /\ interactions' = r.interactions
              /\ wrappers' = r.wrappers
              /\ last' = [op |-> "cancel", err |-> r.err]
        /\ UNCHANGED <<current, stack, compilerVars, reactVars>>

(***************************************************************************)
(* ReactFiberCacheComponent.new.js: reference-counted Cache objects and    *)
(* the pool a render takes its fresh cache from (enableCache is on).       *)
(***************************************************************************)
\* caches created, retainCache calls on one cache and nested
\* restoreSpawnedCachePool calls in one behaviour
MaxCaches == 2

MaxRetains == 2

MaxPoolDepth == 2

NullCache == 0

\* the lanes a render can be given, as sets of lane bits
RenderLanes == {{"SyncLane"}, {"DefaultLane"}}

\* the value restoreSpawnedCachePool returns when it does not restore
NoCachePool == [parent |-> NullCache, pool |-> NullCache]

\* the render in progress: what root.pooledCache was when it started, the
\* caches requestCacheFromPool returned and created since, whether it was
\* asked once or more often, and whether a spawned pool was restored
NoRender == [active |-> FALSE, rootWas |-> NullCache, got |-> {}, made |-> {},
             asked |-> 0, restored |-> FALSE]

CacheIdle ==
    /\ caches = <<>>
    /\ pooledCache = NullCache
    /\ root = [pooledCache |-> NullCache, pooledCacheLanes |-> {}]
    /\ prevFreshCacheOnStack = <<>>
    /\ CacheContext = NullCache
    /\ suspendedPooledCache = NullCache
    /\ poolLog = [op |-> "none", ret |-> NoCachePool, err |-> NoError, refs |-> <<>>,
                  render |-> NoRender, saved |-> <<>>]

\* ReactFiberStack: cursor.current is the value pushed last, null on an empty stack
cursor_current(stk) == IF stk = <<>> THEN NullCache ELSE stk[Len(stk)]

push(stk, value) == Append(stk, value)

pop(stk) == IF stk = <<>> THEN stk ELSE SubSeq(stk, 1, Len(stk) - 1)

\* controller: the number of controller.abort() calls; data: the empty Map
createCache == [controller |-> 0, refCount |-> 0]

retainCache(cache) == [cache EXCEPT !.refCount = @ + 1]

releaseCache_abort_before_decrement(cache, dev) ==
    LET c1 == [cache EXCEPT !.refCount = @ - 1]
    IN IF dev /\ c1.refCount < 0
       THEN [cache |-> c1, err |-> "cache reference count should not be negative"]
       ELSE IF cache.refCount = 0
            THEN [cache |-> [c1 EXCEPT !.controller = @ + 1], err |-> NoError]
            ELSE [cache |-> c1, err |-> NoError]

releaseCache(cache, dev) ==
    LET c1 == [cache EXCEPT !.refCount = @ - 1]
    IN IF dev /\ c1.refCount < 0
       THEN [cache |-> c1, err |-> "cache reference count should not be negative"]
       ELSE IF c1.refCount = 0
            THEN [cache |-> [c1 EXCEPT !.controller = @ + 1], err |-> NoError]
            ELSE [cache |-> c1, err |-> NoError]

requestCacheFromPool_always_fresh(cs, pc) ==
    [caches |-> Append(cs, createCache), pooledCache |-> Len(cs) + 1, ret |-> Len(cs) + 1]

requestCacheFromPool(cs, pc) ==
    IF pc # NullCache
    THEN [caches |-> cs, pooledCache |-> pc, ret |-> pc]
    ELSE [caches |-> Append(cs, createCache), pooledCache |-> Len(cs) + 1,
          ret |-> Len(cs) + 1]

pushRootCachePool(rt) ==
    IF rt.pooledCache # NullCache
    THEN [pooledCache |-> rt.pooledCache, root |-> [rt EXCEPT !.pooledCache = NullCache]]
    ELSE [pooledCache |-> NullCache, root |-> rt]

popRootCachePool(rt, pc, renderLanes) ==
    [root |-> [pooledCache |-> pc,
               pooledCacheLanes |-> IF pc # NullCache
                                    THEN rt.pooledCacheLanes \cup renderLanes
                                    ELSE rt.pooledCacheLanes],
     pooledCache |-> NullCache]

restoreSpawnedCachePool_saves_restored(ctx, pc, stk, prevCachePool) ==
    IF ctx # prevCachePool.parent
    THEN [ret |-> NoCachePool, pooledCache |-> pc, stack |-> stk]
    ELSE [ret |-> prevCachePool, pooledCache |-> prevCachePool.pool,
          stack |-> push(stk, prevCachePool.pool)]

restoreSpawnedCachePool(ctx, pc, stk, prevCachePool) ==
    IF ctx # prevCachePool.parent
    THEN [ret |-> NoCachePool, pooledCache |-> pc, stack |-> stk]
    ELSE [ret |-> prevCachePool, pooledCache |-> prevCachePool.pool,
          stack |-> push(stk, pc)]

popCachePool(pc, stk) ==
    [suspended |-> pc, pooledCache |-> cursor_current(stk), stack |-> pop(stk)]

getSuspendedCachePool(ctx, pc, suspended) ==
    IF pc # NullCache
    THEN [ret |-> [parent |-> ctx, pool |-> pc], suspended |-> suspended]
    ELSE IF suspended # NullCache
         THEN [ret |-> [parent |-> ctx, pool |-> suspended], suspended |-> NullCache]
         ELSE [ret |-> NoCachePool, suspended |-> suspended]

CacheIds == DOMAIN caches

NewRefs == [retains |-> 0, releases |-> 0, zeroed |-> 0, balanced |-> TRUE]

\* createCache() called by its other users (a root, a refresh)
CreateCache ==
    /\ fn = "CacheRefs"
    /\ Len(caches) < MaxCaches
    /\ caches' = Append(caches, createCache)
    /\ poolLog' = [poolLog EXCEPT !.op = "createCache", !.err = NoError,
                                  !.refs = Append(@, NewRefs)]
    /\ UNCHANGED <<pooledCache, root, prevFreshCacheOnStack, CacheContext,
                   suspendedPooledCache, notCacheVars>>

RetainCache ==
    \E c \in CacheIds :
        /\ fn = "CacheRefs"
        /\ poolLog.refs[c].retains < MaxRetains
        /\ caches' = [caches EXCEPT ![c] = retainCache(@)]
        /\ poolLog' = [poolLog EXCEPT !.op = "retainCache", !.err = NoError,
                                      !.refs[c].retains = @ + 1]
        /\ UNCHANGED <<pooledCache, root, prevFreshCacheOnStack, CacheContext,
                       suspendedPooledCache, notCacheVars>>

\* A caller may release once more than it retained; the cache is then
\* outside what its users are promised (balanced).
ReleaseCache ==
    \E c \in CacheIds :
        /\ fn = "CacheRefs"
        /\ poolLog.refs[c].releases <= poolLog.refs[c].retains
        /\ LET r == releaseCache(caches[c], flags.dev)
               g == poolLog.refs[c]
           IN /\ caches' = [caches EXCEPT ![c] = r.cache]
              /\ poolLog' = [poolLog EXCEPT
                    !.op = "releaseCache", !.err = r.err,
                    !.refs[c] = [retains |-> g.retains,
                                 releases |-> g.releases + 1,
                                 zeroed |-> IF g.retains = g.releases + 1
                                            THEN g.zeroed + 1 ELSE g.zeroed,
                                 balanced |-> g.balanced /\ g.releases < g.retains]]
        /\ UNCHANGED <<pooledCache, root, prevFreshCacheOnStack, CacheContext,
                       suspendedPooledCache, notCacheVars>>

\* pushCacheProvider(workInProgress, cache): a Cache boundary makes its cache
\* the value of CacheContext
PushCacheProvider ==
    \E c \in CacheIds :
        /\ fn = "CachePool"
        /\ CacheContext' = c
        /\ poolLog' = [poolLog EXCEPT !.op = "pushCacheProvider"]
        /\ UNCHANGED <<caches, pooledCache, root, prevFreshCacheOnStack,
                       suspendedPooledCache, notCacheVars>>

RequestCacheFromPool ==
    /\ fn = "CachePool"
    /\ pooledCache # NullCache \/ Len(caches) < MaxCaches
    /\ LET r == requestCacheFromPool(caches, pooledCache)
           made == DOMAIN r.caches \ DOMAIN caches
       IN /\ caches' = r.caches
          /\ pooledCache' = r.pooledCache
          /\ poolLog' = [poolLog EXCEPT
                !.op = "requestCacheFromPool",
                !.ret = [parent |-> NullCache, pool |-> r.ret],
                !.refs = IF made = {} THEN @ ELSE Append(@, NewRefs),
                !.render.got = IF poolLog.render.active THEN @ \cup {r.ret} ELSE @,
                !.render.made = IF poolLog.render.active THEN @ \cup made ELSE @,
                !.render.asked = IF poolLog.render.active /\ @ < 2 THEN @ + 1 ELSE @]
    /\ UNCHANGED <<root, prevFreshCacheOnStack, CacheContext, suspendedPooledCache, notCacheVars>>

\* beginWork of the HostRoot; a render starts on an empty fiber stack, and
\* may start again without the previous one having completed
PushRootCachePool ==
    /\ fn = "CachePool"
    /\ prevFreshCacheOnStack = <<>>
    /\ LET r == pushRootCachePool(root)
       IN /\ pooledCache' = r.pooledCache
          /\ root' = r.root
          /\ poolLog' = [poolLog EXCEPT
                !.op = "pushRootCachePool",
                !.render = [active |-> TRUE, rootWas |-> root.pooledCache,
                            got |-> {}, made |-> {}, asked |-> 0,
                            restored |-> FALSE]]
    /\ UNCHANGED <<caches, prevFreshCacheOnStack, CacheContext, suspendedPooledCache, notCacheVars>>

\* completeWork or unwindWork of the HostRoot
PopRootCachePool ==
    \E renderLanes \in RenderLanes :
        /\ fn = "CachePool"
        /\ poolLog.render.active
        /\ prevFreshCacheOnStack = <<>>
        /\ LET r == popRootCachePool(root, pooledCache, renderLanes)
           IN /\ pooledCache' = r.pooledCache
              /\ root' = r.root
              /\ poolLog' = [poolLog EXCEPT !.op = "popRootCachePool",
                                            !.render = NoRender]
        /\ UNCHANGED <<caches, prevFreshCacheOnStack, CacheContext,
                       suspendedPooledCache, notCacheVars>>

RestoreSpawnedCachePool ==
    \E parent \in CacheIds, pool \in CacheIds :
        /\ fn = "CachePool"
        /\ Len(prevFreshCacheOnStack) < MaxPoolDepth
        /\ LET r == restoreSpawnedCachePool(CacheContext, pooledCache,
                        prevFreshCacheOnStack, [parent |-> parent, pool |-> pool])
           IN /\ pooledCache' = r.pooledCache
              /\ prevFreshCacheOnStack' = r.stack
              /\ poolLog' = [poolLog EXCEPT
                    !.op = "restoreSpawnedCachePool", !.ret = r.ret,
                    !.render.restored = @ \/ r.ret # NoCachePool,
                    !.saved = IF r.ret # NoCachePool THEN Append(@, pooledCache) ELSE @]
        /\ UNCHANGED <<caches, root, CacheContext, suspendedPooledCache, notCacheVars>>

\* called for the fibers whose restoreSpawnedCachePool returned a pool
PopCachePool ==
    /\ fn = "CachePool"
    /\ prevFreshCacheOnStack # <<>>
    /\ LET r == popCachePool(pooledCache, prevFreshCacheOnStack)
       IN /\ pooledCache' = r.pooledCache
          /\ prevFreshCacheOnStack' = r.stack
          /\ suspendedPooledCache' = r.suspended
          /\ poolLog' = [poolLog EXCEPT
                !.op = "popCachePool",
                !.ret = NoCachePool,
                !.saved = SubSeq(@, 1, Len(@) - 1)]
    /\ UNCHANGED <<caches, root, CacheContext, notCacheVars>>

GetSuspendedCachePool ==
    /\ fn = "CachePool"
    /\ poolLog.op = "popCachePool"
    /\ LET r == getSuspendedCachePool(CacheContext, pooledCache, suspendedPooledCache)
       IN /\ suspendedPooledCache' = r.suspended
          /\ poolLog' = [poolLog EXCEPT !.op = "getSuspendedCachePool", !.ret = r.ret]
    /\ UNCHANGED <<caches, pooledCache, root, prevFreshCacheOnStack, CacheContext,
                   notCacheVars>>

(***************************************************************************)
(* ReactDOMEventListener.js: dispatchEvent and attemptToDispatchEvent,     *)
(* with the replay queues of ReactDOMEventReplaying they feed.             *)
(***************************************************************************)
\* native events delivered in one behaviour
MaxEvents == 3

NoBlocker == "null"

\* a replayable discrete event, a replayable continuous event and an event
\* that is neither
TopLevelTypes == {"click", "mouseover", "scroll"}

\* What getClosestInstanceFromNode and getNearestMountedFiber find for the
\* target of an event.
TargetKinds ==
    {"none", "unmounted", "dehydrated", "suspense", "hydrating_root", "root",
     "uncommitted", "mounted"}

\* The eventSystemFlags the listeners are bound with: trapEventForPluginEventSystem,
\* addResponderEventSystemEvent and addListenerSystemEvent (the passive bits
\* do not reach dispatchEvent's decisions).
EventSystemFlags(build) ==
    {{"PLUGIN_EVENT_SYSTEM"}}
        \cup (IF build.enableDeprecatedFlareAPI
              THEN {{"RESPONDER_EVENT_SYSTEM"}} ELSE {})
        \cup (IF build.enableListenerAPI
              THEN {{"RESPONDER_EVENT_SYSTEM", "LISTENER_EVENT_SYSTEM"}} ELSE {})

NoEventCall ==
    [op |-> "none", id |-> 0, type |-> "none", queued |-> "no", attempted |-> FALSE,
     blockedOn |-> NoBlocker, attempt |-> <<>>, handoffs |-> <<>>]

EventsIdle ==
    /\ enabled = TRUE
    /\ queuedDiscreteEvents = <<>>
    /\ queuedContinuous = 0
    /\ handled = {}
    /\ eventCall = NoEventCall

\* ReactDOMEventReplaying
isReplayableDiscreteEvent(topLevelType) == topLevelType = "click"

hasQueuedDiscreteEvents(queue) == Len(queue) > 0

queueDiscreteEvent(queue, blockedOn, eventSystemFlags, nativeEvent) ==
    Append(queue, [blockedOn |-> blockedOn, eventSystemFlags |-> eventSystemFlags,
                   nativeEvent |-> nativeEvent])

isContinuousEvent(topLevelType) == topLevelType = "mouseover"

\* the event systems one dispatch block hands the event to, in order
dispatchToEventSystems(build, eventSystemFlags, targetInst) ==
    LET to(system) == IF system \in eventSystemFlags
                      THEN <<[system |-> system, targetInst |-> targetInst]>>
                      ELSE <<>>
    IN IF build.enableDeprecatedFlareAPI \/ build.enableListenerAPI
       THEN to("PLUGIN_EVENT_SYSTEM") \o to("RESPONDER_EVENT_SYSTEM")
                \o to("LISTENER_EVENT_SYSTEM")
       ELSE <<[system |-> "PLUGIN_EVENT_SYSTEM", targetInst |-> targetInst]>>

attemptToDispatchEvent_dispatch_then_block(build, eventSystemFlags, target) ==
    IF target = "dehydrated"
    THEN [blockedOn |-> "SuspenseInstance",
          handoffs |-> dispatchToEventSystems(build, eventSystemFlags, "null")]
    ELSE IF target = "hydrating_root"
    THEN [blockedOn |-> "Container", handoffs |-> <<>>]
    ELSE [blockedOn |-> NoBlocker,
          handoffs |-> dispatchToEventSystems(build, eventSystemFlags,
                          IF target = "mounted" THEN "targetInst" ELSE "null")]

attemptToDispatchEvent(build, eventSystemFlags, target) ==
    IF target = "dehydrated"
    THEN [blockedOn |-> "SuspenseInstance", handoffs |-> <<>>]
    ELSE IF target = "hydrating_root"
    THEN [blockedOn |-> "Container", handoffs |-> <<>>]
    ELSE [blockedOn |-> NoBlocker,
          handoffs |-> dispatchToEventSystems(build, eventSystemFlags,
                          IF target = "mounted" THEN "targetInst" ELSE "null")]

dispatchEvent_no_order_check(build, on, queue, continuous, topLevelType, eventSystemFlags, nativeEvent, target) ==
    LET a == attemptToDispatchEvent(build, eventSystemFlags, target)
        r == [queue |-> queue, continuous |-> continuous, queued |-> "no",
              attempted |-> TRUE, blockedOn |-> a.blockedOn, attempt |-> a.handoffs,
              handoffs |-> a.handoffs]
    IN IF ~on
       THEN [r EXCEPT !.attempted = FALSE, !.blockedOn = NoBlocker,
                      !.attempt = <<>>, !.handoffs = <<>>]
       ELSE IF a.blockedOn = NoBlocker
       THEN [r EXCEPT !.continuous = IF isContinuousEvent(topLevelType) THEN 0 ELSE @]
       ELSE IF isReplayableDiscreteEvent(topLevelType)
       THEN [r EXCEPT !.queued = "discrete",
                      !.queue = queueDiscreteEvent(queue, a.blockedOn, eventSystemFlags,
                                                   nativeEvent)]
       ELSE IF isContinuousEvent(topLevelType)
       THEN [r EXCEPT !.queued = "continuous", !.continuous = nativeEvent]
       ELSE [r EXCEPT !.handoffs = a.handoffs
                          \o dispatchToEventSystems(build, eventSystemFlags, "null")]

dispatchEvent(build, on, queue, continuous, topLevelType, eventSystemFlags, nativeEvent, target) ==
    LET a == attemptToDispatchEvent(build, eventSystemFlags, target)
        r == [queue |-> queue, continuous |-> continuous, queued |-> "no",
              attempted |-> TRUE, blockedOn |-> a.blockedOn, attempt |-> a.handoffs,
              handoffs |-> a.handoffs]
    IN IF ~on
       THEN [r EXCEPT !.attempted = FALSE, !.blockedOn = NoBlocker,
                      !.attempt = <<>>, !.handoffs = <<>>]
       ELSE IF hasQueuedDiscreteEvents(queue) /\ isReplayableDiscreteEvent(topLevelType)
       THEN [r EXCEPT !.queued = "discrete", !.attempted = FALSE,
                      !.blockedOn = NoBlocker, !.attempt = <<>>, !.handoffs = <<>>,
                      !.queue = queueDiscreteEvent(queue, NoBlocker, eventSystemFlags,
                                                   nativeEvent)]
       ELSE IF a.blockedOn = NoBlocker
       THEN [r EXCEPT !.continuous = IF isContinuousEvent(topLevelType) THEN 0 ELSE @]
       ELSE IF isReplayableDiscreteEvent(topLevelType)
       THEN [r EXCEPT !.queued = "discrete",
                      !.queue = queueDiscreteEvent(queue, a.blockedOn, eventSystemFlags,
                                                   nativeEvent)]
       ELSE IF isContinuousEvent(topLevelType)
       THEN [r EXCEPT !.queued = "continuous", !.continuous = nativeEvent]
       ELSE [r EXCEPT !.handoffs = a.handoffs
                          \o dispatchToEventSystems(build, eventSystemFlags, "null")]

\* replayUnblockedEvents: the queued discrete events are attempted from the
\* head on, until one is (still) blocked; targets[i] is what the i-th queued
\* event's target is found to be now
RECURSIVE replayUnblockedEvents(_, _, _, _)
replayUnblockedEvents(build, queue, targets, done) ==
    IF queue = <<>> \/ queue[1].blockedOn # NoBlocker
    THEN [queue |-> queue, done |-> done]
    ELSE LET a == attemptToDispatchEvent(build, queue[1].eventSystemFlags, targets[1])
         IN IF a.blockedOn # NoBlocker
            THEN [queue |-> <<[queue[1] EXCEPT !.blockedOn = a.blockedOn]>> \o Tail(queue),
                  done |-> done]
            ELSE replayUnblockedEvents(build, Tail(queue), Tail(targets),
                     Append(done, [nativeEvent |-> queue[1].nativeEvent,
                                   handoffs |-> a.handoffs]))

\* retryIfBlockedOn(unblocked): the boundary or container has hydrated
retryIfBlockedOn(queue, unblocked) ==
    [i \in DOMAIN queue |->
        IF queue[i].blockedOn = unblocked
        THEN [queue[i] EXCEPT !.blockedOn = NoBlocker] ELSE queue[i]]

SetEnabled ==
    \E on \in BOOLEAN :
        /\ fn = "EventListener"
        /\ enabled' = on
        /\ eventCall' = [NoEventCall EXCEPT !.op = "setEnabled", !.id = eventCall.id]
        /\ UNCHANGED <<queuedDiscreteEvents, queuedContinuous, handled, notEventVars>>

\* a listener bound by trapEventForPluginEventSystem, addResponderEventSystemEvent
\* or addListenerSystemEvent receives the next native event
DispatchEvent ==
    \E topLevelType \in TopLevelTypes, eventSystemFlags \in EventSystemFlags(flags),
       target \in TargetKinds :
        /\ fn = "EventListener"
        /\ eventCall.id < MaxEvents
        /\ LET nativeEvent == eventCall.id + 1
               r == dispatchEvent(flags, enabled, queuedDiscreteEvents, queuedContinuous,
                                  topLevelType, eventSystemFlags, nativeEvent, target)
           IN /\ queuedDiscreteEvents' = r.queue
              /\ queuedContinuous' = r.continuous
              /\ handled' = IF r.handoffs = <<>> THEN handled
                            ELSE handled \cup {[nativeEvent |-> nativeEvent,
                                                type |-> topLevelType]}
              /\ eventCall' = [op |-> "dispatchEvent", id |-> nativeEvent,
                               type |-> topLevelType, queued |-> r.queued,
                               attempted |-> r.attempted, blockedOn |-> r.blockedOn,
                               attempt |-> r.attempt, handoffs |-> r.handoffs]
        /\ UNCHANGED <<enabled, notEventVars>>

RetryIfBlockedOn ==
    \E unblocked \in {"SuspenseInstance", "Container"} :
        /\ fn = "EventListener"
        /\ \E i \in DOMAIN queuedDiscreteEvents :
               queuedDiscreteEvents[i].blockedOn = unblocked
        /\ queuedDiscreteEvents' = retryIfBlockedOn(queuedDiscreteEvents, unblocked)
        /\ eventCall' = [NoEventCall EXCEPT !.op = "retryIfBlockedOn", !.id = eventCall.id]
        /\ UNCHANGED <<enabled, queuedContinuous, handled, notEventVars>>

ReplayUnblockedEvents ==
    \E targets \in [DOMAIN queuedDiscreteEvents -> {"dehydrated", "mounted"}] :
        /\ fn = "EventListener"
        /\ queuedDiscreteEvents # <<>>
        /\ queuedDiscreteEvents[1].blockedOn = NoBlocker
        /\ LET r == replayUnblockedEvents(flags, queuedDiscreteEvents, targets, <<>>)
           IN /\ queuedDiscreteEvents' = r.queue
              /\ handled' = handled \cup {[nativeEvent |-> r.done[i].nativeEvent,
                                           type |-> "click"] : i \in DOMAIN r.done}
              /\ eventCall' = [NoEventCall EXCEPT !.op = "replayUnblockedEvents",
                                                  !.id = eventCall.id]
        /\ UNCHANGED <<enabled, queuedContinuous, notEventVars>>

(***************************************************************************)
(* ReactDOMFloatServer.js: the resource Dispatcher of a server render.     *)
(***************************************************************************)
DNS_PREFETCH == 0

PRECONNECT == 1

PREFETCH == 2

PRELOAD == 3

PREINIT == 4

CORS_NONE == 0

CORS_ANON == 1

CORS_CREDS == 2

HOST_RESOURCE == 1

STYLE_RESOURCE == 2

SCRIPT_RESOURCE == 4

FONT_RESOURCE == 8

\* the hrefs and the options arguments the Float functions are called with
Hrefs == {"a.css"}

NoOptions == [as |-> "undefined", crossOrigin |-> "undefined", given |-> FALSE]

FloatOptions ==
    {NoOptions} \cup
    [as : {"style", "script", "font"},
     crossOrigin : {"undefined", "anonymous"}, given : {TRUE}]

FloatFunctions == {"prefetchDNS", "preconnect", "prefetch", "preload", "preinit"}

NoFloatCall ==
    [op |-> "none", err |-> NoError, inRender |-> FALSE, wasFlushed |-> FALSE]

FloatIdle ==
    /\ currentResourceMap = FALSE
    /\ resourceMap = <<>>
    /\ floatCall = NoFloatCall

NullMapError(name) == name \o " was called while currentResourceMap is null"

\* crossOriginOption === 'use-credentials' / a string or true / anything else
CrossOrigin(crossOriginOption) ==
    IF crossOriginOption = "use-credentials" THEN CORS_CREDS
    ELSE IF crossOriginOption # "undefined" THEN CORS_ANON
    ELSE CORS_NONE

\* href + crossorigin: the last character is the crossorigin digit
Key(href, crossorigin) == <<href, crossorigin>>

Resource(priority, as, href, crossorigin) ==
    [priority |-> priority, as |-> as, href |-> href, flushed |-> FALSE,
     module |-> FALSE, crossorigin |-> crossorigin, type |-> ""]

MapSet(map, key, resource) ==
    [k \in DOMAIN map \cup {key} |-> IF k = key THEN resource ELSE map[k]]

Returned(map) == [map |-> map, err |-> NoError]

prefetchDNS(cur, map, href, options, dev) ==
    IF ~cur THEN [map |-> map, err |-> NullMapError("prefetchDNS")]
    ELSE LET crossorigin == CrossOrigin(IF options.given THEN options.crossOrigin
                                        ELSE "undefined")
             key == Key(href, crossorigin)
         IN IF key \in DOMAIN map THEN Returned(map)
            ELSE Returned(MapSet(map, key,
                     Resource(DNS_PREFETCH, HOST_RESOURCE, href, crossorigin)))

preconnect(cur, map, href, options, dev) ==
    IF ~cur THEN [map |-> map, err |-> NullMapError("preconnect")]
    ELSE LET crossorigin == CrossOrigin(IF options.given THEN options.crossOrigin
                                        ELSE "undefined")
             key == Key(href, crossorigin)
         IN IF key \in DOMAIN map
            THEN IF map[key].priority >= PRECONNECT THEN Returned(map)
                 ELSE Returned([map EXCEPT ![key].priority = PRECONNECT,
                                           ![key].flushed = FALSE])
            ELSE Returned(MapSet(map, key,
                     Resource(PRECONNECT, HOST_RESOURCE, href, crossorigin)))

\* the body prefetch, preload and preinit share once `as` is known
Upgrade(map, priority, as, href, crossorigin) ==
    LET key == Key(href, crossorigin)
    IN IF key \in DOMAIN map
       THEN IF map[key].priority >= priority THEN Returned(map)
            ELSE Returned([map EXCEPT ![key].priority = priority, ![key].as = as,
                                      ![key].flushed = FALSE])
       ELSE Returned(MapSet(map, key, Resource(priority, as, href, crossorigin)))

AsType(as) ==
    IF as = "style" THEN STYLE_RESOURCE
    ELSE IF as = "script" THEN SCRIPT_RESOURCE
    ELSE FONT_RESOURCE

prefetch(cur, map, href, options, dev) ==
    IF ~cur THEN [map |-> map, err |-> NullMapError("prefetch")]
    ELSE IF ~options.given THEN Returned(map)
    ELSE IF options.as \notin {"style", "script", "font"} THEN Returned(map)
    ELSE Upgrade(map, PREFETCH, AsType(options.as), href,
                 IF options.as = "font" THEN CORS_ANON
                 ELSE CrossOrigin(options.crossOrigin))

preload_keeps_flushed(cur, map, href, options, dev) ==
    IF ~cur THEN [map |-> map, err |-> NullMapError("preload")]
    ELSE IF ~options.given THEN Returned(map)
    ELSE IF options.as \notin {"style", "script", "font"} THEN Returned(map)
    ELSE LET crossorigin == IF options.as = "font" THEN CORS_ANON
                            ELSE CrossOrigin(options.crossOrigin)
             key == Key(href, crossorigin)
             r == Upgrade(map, PRELOAD, AsType(options.as), href, crossorigin)
         IN IF key \in DOMAIN map
            THEN [r EXCEPT !.map[key].flushed = map[key].flushed] ELSE r

preload(cur, map, href, options, dev) ==
    IF ~cur THEN [map |-> map, err |-> NullMapError("preload")]
    ELSE IF ~options.given THEN Returned(map)
    ELSE IF options.as \notin {"style", "script", "font"} THEN Returned(map)
    ELSE Upgrade(map, PRELOAD, AsType(options.as), href,
                 IF options.as = "font" THEN CORS_ANON
                 ELSE CrossOrigin(options.crossOrigin))

preinit(cur, map, href, options, dev) ==
    IF dev /\ (~options.given \/ options.as \notin {"style", "script"})
    THEN [map |-> map,
          err |-> "preinit was called without specifying a valid \"as\" type"]
    ELSE IF ~cur THEN [map |-> map, err |-> NullMapError("preinit")]
    ELSE IF ~options.given THEN Returned(map)
    ELSE IF options.as \notin {"style", "script"} THEN Returned(map)
    ELSE Upgrade(map, PREINIT, AsType(options.as), href,
                 CrossOrigin(options.crossOrigin))

Dispatcher(name, cur, map, href, options, dev) ==
    CASE name = "prefetchDNS" -> prefetchDNS(cur, map, href, options, dev)
      [] name = "preconnect" -> preconnect(cur, map, href, options, dev)
      [] name = "prefetch" -> prefetch(cur, map, href, options, dev)
      [] name = "preload" -> preload(cur, map, href, options, dev)
      [] name = "preinit" -> preinit(cur, map, href, options, dev)

cleanupAfterRender_keeps_map(cur) == cur

cleanupAfterRender(cur) == FALSE

\* prepareToRender(resourceMap) with the map of the request being rendered
PrepareToRender ==
    /\ fn = "FloatServer"
    /\ ~floatCall.inRender
    /\ currentResourceMap' = TRUE
    /\ floatCall' = [NoFloatCall EXCEPT !.op = "prepareToRender", !.inRender = TRUE]
    /\ UNCHANGED <<resourceMap, notFloatVars>>

CleanupAfterRender ==
    /\ fn = "FloatServer"
    /\ floatCall.inRender
    /\ currentResourceMap' = cleanupAfterRender(currentResourceMap)
    /\ floatCall' = [NoFloatCall EXCEPT !.op = "cleanupAfterRender"]
    /\ UNCHANGED <<resourceMap, notFloatVars>>

\* a call of one of the Dispatcher's functions, during a render or outside
CallDispatcher ==
    \E name \in FloatFunctions, href \in Hrefs, options \in FloatOptions :
        /\ fn = "FloatServer"
        /\ LET r == Dispatcher(name, currentResourceMap, resourceMap, href, options,
                               flags.dev)
               raisedKeys == {k \in DOMAIN resourceMap :
                                 r.map[k].priority > resourceMap[k].priority}
           IN /\ resourceMap' = r.map
              /\ floatCall' = [op |-> name, err |-> r.err,
                               inRender |-> floatCall.inRender,
                               wasFlushed |-> \E k \in raisedKeys : resourceMap[k].flushed]
        /\ UNCHANGED <<currentResourceMap, notFloatVars>>

\* between two renders of a request the server writes the resources that
\* are not flushed yet and marks them
FlushResources ==
    /\ fn = "FloatServer"
    /\ ~floatCall.inRender
    /\ \E k \in DOMAIN resourceMap : ~resourceMap[k].flushed
    /\ resourceMap' = [k \in DOMAIN resourceMap |-> [resourceMap[k] EXCEPT !.flushed = TRUE]]
    /\ floatCall' = [NoFloatCall EXCEPT !.op = "flush"]
    /\ UNCHANGED <<currentResourceMap, notFloatVars>>

(***************************************************************************)
(* fixtures/reconciler/NoopRenderer.js: the deferred callback of the noop  *)
(* renderer and the flushUnitsOfWork generator that runs it.               *)
(***************************************************************************)
\* callbacks scheduled in one behaviour, and units of work a flush is given
MaxCallbacks == 4

MaxUnits == 2

NoCallback == 0

NotFlushing == [active |-> FALSE, cb |-> NoCallback, n |-> 0, unitsRemaining |-> 0,
                didStop |-> FALSE]

NoopIdle ==
    /\ scheduledCallback = NoCallback
    /\ flushing = NotFlushing
    /\ noopLog = [op |-> "none", err |-> NoError, invoked |-> <<>>]

scheduleDeferredCallback(scheduled, callback) ==
    IF scheduled # NoCallback
    THEN [scheduledCallback |-> scheduled,
          err |-> "Scheduling a callback twice is excessive"]
    ELSE [scheduledCallback |-> callback, err |-> NoError]

\* One turn of the loop of flushUnitsOfWork, up to the call of cb
\* (yieldedValues is never assigned anything but null in this file).
flushUnitsOfWork_keeps_pending(scheduled, f) ==
    IF ~f.didStop /\ scheduled # NoCallback
    THEN [scheduledCallback |-> scheduled,
          flushing |-> [f EXCEPT !.active = TRUE, !.cb = scheduled,
                                 !.unitsRemaining = f.n]]
    ELSE [scheduledCallback |-> scheduled, flushing |-> NotFlushing]

flushUnitsOfWork(scheduled, f) ==
    IF ~f.didStop /\ scheduled # NoCallback
    THEN [scheduledCallback |-> NoCallback,
          flushing |-> [f EXCEPT !.active = TRUE, !.cb = scheduled,
                                 !.unitsRemaining = f.n]]
    ELSE [scheduledCallback |-> scheduled, flushing |-> NotFlushing]

\* deadline.timeRemaining() as the running callback calls it
timeRemaining(f) ==
    IF f.unitsRemaining > 0
    THEN [f EXCEPT !.unitsRemaining = @ - 1]
    ELSE [f EXCEPT !.unitsRemaining = @ - 1, !.didStop = TRUE]

\* The reconciler schedules its deferred work: from an update outside a
\* flush, or from the running callback that has work left.
ScheduleDeferredCallback ==
    /\ fn = "NoopRenderer"
    /\ Len(noopLog.invoked) < MaxCallbacks
    /\ flushing.active => flushing.cb # NoCallback
    /\ LET callback == Len(noopLog.invoked) + 1
           r == scheduleDeferredCallback(scheduledCallback, callback)
       IN /\ scheduledCallback' = r.scheduledCallback
          /\ noopLog' = [op |-> "scheduleDeferredCallback", err |-> r.err,
                         invoked |-> IF r.err = NoError THEN Append(noopLog.invoked, 0)
                                     ELSE noopLog.invoked]
    /\ UNCHANGED <<flushing, notNoopVars>>

\* ReactNoop.flushUnitsOfWork(n) or ReactNoop.flush()
FlushUnitsOfWork ==
    \E n \in 0..MaxUnits :
        /\ fn = "NoopRenderer"
        /\ ~flushing.active
        /\ LET r == flushUnitsOfWork(scheduledCallback, [NotFlushing EXCEPT !.n = n])
           IN /\ scheduledCallback' = r.scheduledCallback
              /\ flushing' = r.flushing
              /\ noopLog' = [op |-> "flushUnitsOfWork", err |-> NoError,
                             invoked |-> IF r.flushing.cb # NoCallback
                                         THEN [noopLog.invoked EXCEPT ![r.flushing.cb] = @ + 1]
                                         ELSE noopLog.invoked]
        /\ UNCHANGED notNoopVars

TimeRemaining ==
    /\ fn = "NoopRenderer"
    /\ flushing.cb # NoCallback
    /\ flushing.unitsRemaining >= 0
    /\ flushing' = timeRemaining(flushing)
    /\ noopLog' = [noopLog EXCEPT !.op = "timeRemaining", !.err = NoError]
    /\ UNCHANGED <<scheduledCallback, notNoopVars>>

\* the running callback returns and the loop of flushUnitsOfWork goes on
CallbackReturns ==
    /\ fn = "NoopRenderer"
    /\ flushing.cb # NoCallback
    /\ LET r == flushUnitsOfWork(scheduledCallback, [flushing EXCEPT !.cb = NoCallback])
       IN /\ scheduledCallback' = r.scheduledCallback
          /\ flushing' = r.flushing
          /\ noopLog' = [op |-> "callbackReturns", err |-> NoError,
                         invoked |-> IF r.flushing.cb # NoCallback
                                     THEN [noopLog.invoked EXCEPT ![r.flushing.cb] = @ + 1]
                                     ELSE noopLog.invoked]
    /\ UNCHANGED notNoopVars

ReactIdle ==
    /\ CacheIdle
    /\ EventsIdle
    /\ FloatIdle
    /\ NoopIdle

(***************************************************************************)
(* The call site.                                                          *)
(***************************************************************************)
\* Objects of the caller: two distinct but structurally equal objects and two arrays.
CallerHeap ==
    <<Obj("object", <<>>, <<>>), Obj("object", <<>>, <<>>),
      Obj("array", <<>>, <<Str("item")>>), Obj("array", <<>>, <<>>)>>

\* The caller owns its arrays and may replace their content between two renders.
CallerWrites(h, change) ==
    IF change THEN [h EXCEPT ![3].vals = <<Str("changed")>>] ELSE h

\* Values a caller can pass: a missing property, NaN, the registry symbol any
\* code obtains from Symbol.for, and the caller's two objects.
ArgValues == {Undefined, NaN, SymbolFor("react.memo_cache_sentinel"), Ref(1), Ref(2)}

Outcomes == {"returns", "throws"}

\* The fixture functions, with the number of slots each asks of useMemoCache and
\* the reactive scopes that own them.
Fixtures ==
    {"jsx", "useHook", "hoisting1", "hoisting2", "trycatch1", "trycatch2", "foo",
     "uninitialized", "dowhile", "capture_mutate", "capturing_decl", "preserve_false",
     "preserve_true", "bar", "infer_useFoo", "nested", "callback_useFoo", "state",
     "freeze_useFoo", "assignment", "forwardRef", "gating"}

Scopes(f) ==
    IF f \in {"hoisting1", "nested", "callback_useFoo"} THEN {"s0", "s1"} ELSE {"s0"}

NoFlags == [dev |-> FALSE, instrument |-> FALSE, gating |-> TRUE]

\* What is fixed when the module loads: __DEV__ and shouldInstrument matter
\* to the emit-freeze fixture only,
\* isForgetEnabled_Fixtures() to the gating fixture only.
BuildFlags(f) ==
    IF f = "freeze_useFoo"
    THEN {[dev |-> d, instrument |-> i, gating |-> TRUE] : d \in BOOLEAN, i \in BOOLEAN}
    ELSE IF f = "gating"
    THEN {[NoFlags EXCEPT !.gating = g] : g \in BOOLEAN}
    ELSE {NoFlags}

NoOrig == [k |-> "none", v |-> Undefined]

\* the outcome of the source function on the same arguments, by structure
Original(r) == [k |-> r.out.k, v |-> Shape(r.heap, r.out.v)]

Record(args, ext, r, orig) ==
    [args |-> args, ext |-> ext, pre |-> r.was, alloc |-> DOMAIN r.was, post |-> r.memo,
     out |-> r.out, shape |-> [k |-> r.out.k, v |-> Shape(r.heap, r.out.v)],
     orig |-> orig, rd |-> r.rd, wr |-> r.wr, ran |-> r.ran, st |-> r.st, eff |-> r.eff]

Invoke(f, args, ext, r, orig) ==
    /\ fn = f
    /\ Len(hist) < MaxCalls
    /\ memo' = r.memo
    /\ heap' = r.heap
    /\ hist' = Append(hist, Record(args, ext, r, orig))
    /\ UNCHANGED <<fn, flags, trackingVars, reactVars>>

Init ==
    /\ fn \in Fixtures
    /\ flags \in BuildFlags(fn)
    /\ memo = NoCache
    /\ heap = CallerHeap
    /\ hist = <<>>
    /\ TrackingIdle
    /\ ReactIdle

Call_jsx ==
    \E v \in ArgValues :
        Invoke("jsx", <<v>>, <<>>, jsx_Component(memo, heap, [version |-> v]), NoOrig)

Call_useHook ==
    \E cond \in ArgValues \cup {Bool(TRUE), Bool(FALSE)} :
        Invoke("useHook", <<cond>>, <<>>, useHook(memo, heap, cond),
               Original(useHook_Input(heap, cond)))

Call_hoisting1 ==
    Invoke("hoisting1", <<>>, <<>>, hoisting1_Component(memo, heap), NoOrig)

Call_hoisting2 ==
    \E a \in ArgValues, b \in {Undefined, Ref(1), Ref(2)} :
        Invoke("hoisting2", <<a, b>>, <<>>,
               hoisting2_Component(memo, heap, [a |-> a, b |-> b]), NoOrig)

Call_trycatch1 ==
    \E sc \in {"copies", "null", "throws"}, ti \in Outcomes :
        Invoke("trycatch1", <<>>, <<sc, ti>>, trycatch1_Component(memo, heap, sc, ti),
               Original(trycatch1_Input(heap, sc, ti)))

Call_trycatch2 ==
    \E y0 \in ArgValues \cup {Ref(3), Ref(4)}, change \in BOOLEAN :
        LET h == CallerWrites(heap, change)
        IN Invoke("trycatch2", <<y0, Shape(h, y0)>>, <<>>, trycatch2_Component(memo, h, y0),
                  Original(trycatch2_Input(h, y0)))

Call_foo ==
    \E a \in ArgValues, so \in Outcomes :
        Invoke("foo", <<a>>, <<so>>, foo(memo, heap, a, so), Original(foo_Input(heap, a, so)))

Call_uninitialized ==
    \E p \in ArgValues, mu \in Outcomes, fo \in Outcomes :
        \* foo is reached only when mutate returns
        (mu = "throws" => fo = "throws") /\
        Invoke("uninitialized", <<p>>, <<mu, fo>>,
               uninitialized_Component(memo, heap, mu, fo), NoOrig)

Call_dowhile ==
    \E cond \in ArgValues, mu \in Outcomes :
        Invoke("dowhile", <<cond>>, <<mu>>, dowhile_Component(memo, heap, mu), NoOrig)

Call_capture_mutate ==
    \E a \in ArgValues :
        Invoke("capture_mutate", <<a>>, <<>>, capture_mutate_component(memo, heap, a), NoOrig)

Call_capturing_decl ==
    \E a \in ArgValues, pf \in Outcomes :
        Invoke("capturing_decl", <<a>>, <<pf>>,
               capturing_decl_component(memo, heap, a, pf), NoOrig)

Call_preserve_false ==
    Invoke("preserve_false", <<>>, <<>>, preserve_false_Component(memo, heap), NoOrig)

Call_preserve_true ==
    Invoke("preserve_true", <<>>, <<>>, preserve_true_Component(memo, heap), NoOrig)

Call_bar ==
    \E a \in ArgValues :
        Invoke("bar", <<a>>, <<>>, bar(memo, heap, a), NoOrig)

Call_infer_useFoo ==
    \E hook \in ArgValues :
        Invoke("infer_useFoo", <<hook>>, <<>>, infer_useFoo(memo, heap, hook), NoOrig)

Call_nested ==
    \E a \in ArgValues, pf \in Outcomes :
        Invoke("nested", <<a>>, <<pf>>, nested_component(memo, heap, a, pf), NoOrig)

Call_callback_useFoo ==
    Invoke("callback_useFoo", <<>>, <<>>, callback_useFoo(memo, heap), NoOrig)

Call_state ==
    \E state \in ArgValues \cup {Null} :
        Invoke("state", <<state>>, <<>>, state_Component(memo, heap, state), NoOrig)

Call_freeze_useFoo ==
    \E x \in ArgValues, fo \in Outcomes :
        Invoke("freeze_useFoo", <<x>>, <<fo>>,
               freeze_useFoo(memo, heap, x, flags, fo), NoOrig)

Call_assignment ==
    Invoke("assignment", <<>>, <<>>, assignment_Component(memo, heap), NoOrig)

Call_forwardRef ==
    Invoke("forwardRef", <<>>, <<>>, forwardRef_Component(memo, heap), NoOrig)

Call_gating ==
    \E value \in ArgValues :
        Invoke("gating", <<value>>, <<>>, gating_Component(memo, heap, value, flags), NoOrig)

Next ==
    \/ Call_jsx
    \/ Call_useHook
    \/ Call_hoisting1
    \/ Call_hoisting2
    \/ Call_trycatch1
    \/ Call_trycatch2
    \/ Call_foo
    \/ Call_uninitialized
    \/ Call_dowhile
    \/ Call_capture_mutate
    \/ Call_capturing_decl
    \/ Call_preserve_false
    \/ Call_preserve_true
    \/ Call_bar
    \/ Call_infer_useFoo
    \/ Call_nested
    \/ Call_callback_useFoo
    \/ Call_state
    \/ Call_freeze_useFoo
    \/ Call_assignment
    \/ Call_forwardRef
    \/ Call_gating

Spec == Init /\ [][Next]_vars

\* The InteractionTracking module, loaded by the test suite on its own.
InitTracking ==
    /\ fn = "InteractionTracking"
    /\ flags = NoFlags
    /\ memo = NoCache
    /\ heap = <<>>
    /\ hist = <<>>
    /\ TrackingIdle
    /\ ReactIdle

NextTracking ==
    \/ Track
    \/ TrackReturn
    \/ Wrap
    \/ Wrapped
    \/ WrappedReturn
    \/ Cancel

SpecTracking == InitTracking /\ [][NextTracking]_vars

\* The caches of ReactFiberCacheComponent under their users' retain and
\* release calls, in a development or a production build.
InitCacheRefs ==
    /\ fn = "CacheRefs"
    /\ flags \in {[NoFlags EXCEPT !.dev = d] : d \in BOOLEAN}
    /\ memo = NoCache
    /\ heap = <<>>
    /\ hist = <<>>
    /\ TrackingIdle
    /\ ReactIdle

NextCacheRefs ==
    \/ CreateCache
    \/ RetainCache
    \/ ReleaseCache

SpecCacheRefs == InitCacheRefs /\ [][NextCacheRefs]_vars

\* The cache pool of ReactFiberCacheComponent under the work loop's calls.
InitCachePool ==
    /\ fn = "CachePool"
    /\ flags = NoFlags
    /\ memo = NoCache
    /\ heap = <<>>
    /\ hist = <<>>
    /\ TrackingIdle
    /\ ReactIdle

NextCachePool ==
    \/ PushCacheProvider
    \/ RequestCacheFromPool
    \/ PushRootCachePool
    \/ PopRootCachePool
    \/ RestoreSpawnedCachePool
    \/ PopCachePool
    \/ GetSuspendedCachePool

SpecCachePool == InitCachePool /\ [][NextCachePool]_vars

\* The listeners of ReactDOMEventListener receiving native events, in a build
\* with or without the Flare and Listener APIs.
InitEvents ==
    /\ fn = "EventListener"
    /\ flags \in [enableDeprecatedFlareAPI : BOOLEAN, enableListenerAPI : BOOLEAN]
    /\ memo = NoCache
    /\ heap = <<>>
    /\ hist = <<>>
    /\ TrackingIdle
    /\ ReactIdle

NextEvents ==
    \/ SetEnabled
    \/ DispatchEvent
    \/ RetryIfBlockedOn
    \/ ReplayUnblockedEvents

SpecEvents == InitEvents /\ [][NextEvents]_vars

\* The Float Dispatcher of one request, rendered in several passes with a
\* flush between them, in a development or a production build.
InitFloat ==
    /\ fn = "FloatServer"
    /\ flags \in {[NoFlags EXCEPT !.dev = d] : d \in BOOLEAN}
    /\ memo = NoCache
    /\ heap = <<>>
    /\ hist = <<>>
    /\ TrackingIdle
    /\ ReactIdle

NextFloat ==
    \/ PrepareToRender
    \/ CleanupAfterRender
    \/ CallDispatcher
    \/ FlushResources

SpecFloat == InitFloat /\ [][NextFloat]_vars

\* The noop renderer's scheduling under updates and flushes.
InitNoop ==
    /\ fn = "NoopRenderer"
    /\ flags = NoFlags
    /\ memo = NoCache
    /\ heap = <<>>
    /\ hist = <<>>
    /\ TrackingIdle
    /\ ReactIdle

NextNoop ==
    \/ ScheduleDeferredCallback
    \/ FlushUnitsOfWork
    \/ TimeRemaining
    \/ CallbackReturns

SpecNoop == InitNoop /\ [][NextNoop]_vars

(***************************************************************************)
(* Properties of the compiled functions.                                   *)
(***************************************************************************)
Calls == DOMAIN hist

Sentinels == {MEMO_CACHE_SENTINEL, EARLY_RETURN_SENTINEL}

\* the indices a record's writes touch, and those scope s wrote
Written(r) == {w[1] : w \in r.wr}

WrittenBy(r, s) == {w[1] : w \in {u \in r.wr : u[2] = s}}

\* C1: in jsx-namespaced-name Component and in useHook, an invocation whose
\* dependency is identical (===) to that of the invocation right before it
\* returns the very reference that one returned and executes nothing of the
\* scope body (no element creation, no log.push).
C1_CacheHit ==
    fn \in {"jsx", "useHook"} =>
        \A i \in Calls :
            (i > 1 /\ StrictEq(hist[i].args[1], hist[i - 1].args[1])) =>
                /\ hist[i].out = hist[i - 1].out
                /\ hist[i].ran = {}
                /\ hist[i].eff = <<>>
                /\ hist[i].wr = {}

C1_Witness ==
    /\ fn = "jsx"
    /\ Len(hist) >= 2
    /\ hist[1].st = {"s0"}
    /\ hist[1].args = <<Ref(1)>>
    /\ hist[2].args = <<Ref(1)>>
    /\ hist[2].out = hist[1].out

\* C2: in hoisting-within-lambda's second Component, whenever props.a or props.b
\* differs by identity from the snapshot in $[0] or $[1] (a structurally equal
\* but distinct object included), the body executes in full and $[0], $[1], $[2]
\* are overwritten with props.a, props.b and the newly built x.
C2_CacheMiss ==
    fn = "hoisting2" =>
        \A i \in Calls :
            LET r == hist[i]
            IN (StrictNe(r.pre[0], r.args[1]) \/ StrictNe(r.pre[1], r.args[2])) =>
                   /\ r.ran = {"s0"}
                   /\ r.eff = <<"delete x.b">>
                   /\ r.wr = {<<0, "s0">>, <<1, "s0">>, <<2, "s0">>}
                   /\ r.post[0] = r.args[1]
                   /\ r.post[1] = r.args[2]
                   /\ r.post[2] = r.out.v
                   /\ r.out.k = "return"
                   /\ IsRef(r.out.v)
                   /\ \A j \in 1 .. i - 1 : hist[j].out # r.out
                   /\ r.shape.v.keys = <<"a">>

C2_Witness ==
    /\ fn = "hoisting2"
    /\ Len(hist) >= 2
    /\ hist[1].args = <<Ref(1), Undefined>>
    /\ hist[2].args = <<Ref(2), Undefined>>
    /\ hist[2].ran = {"s0"}
    /\ hist[2].post[0] = Ref(2)

\* what the scope of try-catch-with-return left in t0 when it ran
EarlyExit(r) ==
    IF \E k \in DOMAIN r.eff : r.eff[k] = "catch" THEN Return(Null)
    ELSE IF \E k \in DOMAIN r.eff : r.eff[k] = "break bb26" THEN Return(Undefined)
    ELSE Return(EARLY_RETURN_SENTINEL)

\* C3: in try-catch-with-return's first Component, once the invocation that
\* populated the cache left the scope through the catch path (return null) or
\* the `y == null` path (return undefined), every later cache-hit invocation
\* returns that same early-return value without executing the try body, and
\* never falls through to `return x`.
C3_EarlyExitReplay ==
    fn = "trycatch1" =>
        \A i \in Calls : \A j \in Calls :
            (/\ i < j
             /\ hist[i].st = {"s0"}
             /\ EarlyExit(hist[i]) # Return(EARLY_RETURN_SENTINEL)
             /\ hist[j].ran = {}) =>
                /\ hist[j].out = EarlyExit(hist[i])
                /\ hist[j].out = hist[i].out
                /\ hist[j].out # Return(hist[j].pre[0])
                /\ hist[j].eff = <<>>

C3_Witness ==
    /\ fn = "trycatch1"
    /\ Len(hist) >= 2
    /\ hist[1].st = {"s0"}
    /\ hist[1].eff = <<"shallowCopy", "throwInput", "catch">>
    /\ hist[2].ran = {}
    /\ hist[2].out = Return(Null)

\* the external functions did the same in every invocation so far
Deterministic == \A i \in Calls : \A j \in Calls : hist[i].ext = hist[j].ext

\* C4: for foo (obj-mutated-after-if-else-with-alias) and Component
\* (try-catch-with-return), with external functions that are deterministic in
\* their arguments, the i-th invocation of the compiled function returns or
\* throws an outcome structurally equal to that of the i-th invocation of the
\* source function.
C4_SameAsSource ==
    (fn \in {"foo", "trycatch1"} /\ Deterministic) =>
        \A i \in Calls : hist[i].shape = hist[i].orig

\* C5: the uninitialized marker and the early-return marker are disjoint from
\* every value user code can produce or pass: no argument or dependency value
\* and no early-return value ever equals a sentinel.
C5_SentinelDisjoint ==
    \A i \in Calls :
        /\ \A k \in DOMAIN hist[i].args : hist[i].args[k] \notin Sentinels
        /\ hist[i].out.v \notin Sentinels

\* C6: a first invocation against a fresh cache that returns has executed the
\* body of every reactive scope of the function and stored its outputs and
\* dependency snapshots, whatever the arguments are.
C6_FirstCallExecutes ==
    (Len(hist) >= 1 /\ flags.gating /\ hist[1].out.k = "return") =>
        /\ hist[1].ran = Scopes(fn)
        /\ hist[1].st = Scopes(fn)
        /\ \A k \in hist[1].alloc : <<k, "s0">> \in hist[1].wr \/ <<k, "s1">> \in hist[1].wr

\* C7: once an invocation has stored a scope's slots, those slots never again
\* hold the uninitialized marker, and every later execution of the scope's
\* guard is a HIT (no slot written) or a MISS (the body runs and every slot of
\* the scope is overwritten).
C7_ScopeStateMachine ==
    \A i \in Calls : \A s \in hist[i].st :
        LET slots == WrittenBy(hist[i], s)
        IN \A j \in Calls :
               j >= i =>
                   /\ \A k \in slots : hist[j].post[k] # MEMO_CACHE_SENTINEL
                   /\ \/ s \notin hist[j].ran /\ WrittenBy(hist[j], s) = {}
                      \/ s \in hist[j].st /\ WrittenBy(hist[j], s) = slots

\* C8 as stated: in the do-while Component and in
\* uninitialized-declaration-in-reactive-scope the scope body executes exactly
\* once, on the first invocation, and every later invocation returns the
\* reference stored in $[0].
C8_ExactlyOnce ==
    fn \in {"dowhile", "uninitialized"} =>
        \A i \in Calls :
            IF i = 1
            THEN hist[i].ran = {"s0"}
            ELSE hist[i].ran = {} /\ hist[i].out = Return(hist[i].pre[0])

\* C8 as amended: the scope body runs to completion at most once, in the first
\* invocation whose body does not throw; an invocation before it throws and
\* leaves the cache as it was; every invocation after it executes nothing of
\* the body and returns the reference stored in $[0], whatever the props are.
C8_OnceCompleted ==
    fn \in {"dowhile", "uninitialized"} =>
        \A i \in Calls :
            LET r == hist[i]
            IN IF \E j \in 1 .. i - 1 : hist[j].st = {"s0"}
               THEN /\ r.ran = {}
                    /\ r.eff = <<>>
                    /\ r.post = r.pre
                    /\ r.out = Return(r.pre[0])
                    /\ IsRef(r.out.v)
               ELSE /\ r.ran = {"s0"}
                    /\ r.out.k = "throw" => (r.st = {} /\ r.post = r.pre)
                    /\ r.out.k = "return" => (r.st = {"s0"} /\ r.post[0] = r.out.v)

C8_Witness ==
    /\ fn = "dowhile"
    /\ Len(hist) >= 3
    /\ hist[1].out.k = "throw"
    /\ hist[2].st = {"s0"}
    /\ hist[3].ran = {}
    /\ hist[3].args # hist[2].args
    /\ hist[3].out = hist[2].out

\* C9: the constant n given to useMemoCache is the number of cache indices the
\* function uses, these are exactly 0..n-1, and each is written by one scope
\* only: no read or write is out of bounds, the array never grows, and no scope
\* writes a slot another scope wrote.
C9_SlotAccounting ==
    flags.gating =>
        /\ \A i \in Calls :
               /\ hist[i].rd \cup Written(hist[i]) \subseteq hist[i].alloc
               /\ DOMAIN hist[i].post = hist[i].alloc
               /\ \E n \in 1 .. 3 : hist[i].alloc = 0 .. n - 1
        /\ \A i \in Calls : \A j \in Calls :
               \A u \in hist[i].wr : \A w \in hist[j].wr : u[1] = w[1] => u[2] = w[2]
        /\ (UNION {hist[i].st : i \in Calls} = Scopes(fn)) =>
               UNION {Written(hist[i]) : i \in Calls} = DOMAIN memo

C9_Witness ==
    /\ fn = "nested"
    /\ Len(hist) >= 2
    /\ hist[1].st = {"s1"}
    /\ hist[2].st = {"s0"}
    /\ DOMAIN memo = 0 .. 2

\* a step that is a cache-hit invocation of one of the three functions
C10_Hit ==
    /\ fn \in {"capture_mutate", "capturing_decl", "bar"}
    /\ Len(hist') = Len(hist) + 1
    /\ hist'[Len(hist')].ran = {}

\* C10: in capture_mutate-across-fns, capturing-function-decl (first fixture)
\* and capturing-function-alias-computed-load, an invocation that hits the
\* cache creates no closure, makes no mutating call, and neither mutates nor
\* reassigns the value held in the output slot $[1].
C10_MutationLifetime ==
    [][C10_Hit =>
         /\ hist'[Len(hist')].eff = <<>>
         /\ memo'[1] = hist'[Len(hist')].pre[1]
         /\ hist'[Len(hist')].out = Return(memo'[1])
         /\ \A a \in DOMAIN heap : heap'[a] = heap[a]
         /\ IsRef(memo'[1]) => Shape(heap', memo'[1]) = Shape(heap, memo'[1])]_vars

C10_Witness ==
    /\ fn = "capture_mutate"
    /\ Len(hist) >= 2
    /\ hist[1].st = {"s0"}
    /\ hist[1].eff = <<"f0()", "f1()", "z.b = 1">>
    /\ hist[2].ran = {}
    /\ IsRef(memo[1])
    /\ heap[memo[1].n].keys = <<"a", "b">>

\* the function objects allocated so far
Functions == {a \in 1..Len(heap) : heap[a].kind = "function"}

\* C11: the function useFoo returns (the useCallback fixture) and the function
\* bound to `outer` in hoisting-within-lambda's first Component are created
\* exactly once per cache and are the same reference in every invocation; the
\* inner function x of component(a), held in $[2], is created at most once,
\* also when the enclosing scope runs again because `a` changed.
C11_ClosureIdentity ==
    /\ (fn = "callback_useFoo" /\ hist # <<>>) =>
          /\ Cardinality(Functions) = 1
          /\ \A i \in Calls : /\ hist[i].out.k = "return"
                               /\ hist[i].out.v.n \in Functions
                               /\ hist[i].out = hist[1].out
                               /\ ("s1" \in hist[i].ran <=> i = 1)
    /\ (fn = "hoisting1" /\ hist # <<>>) =>
          /\ Cardinality(Functions) = 1
          /\ \A i \in Calls : /\ Get(hist[i].post, 0).n \in Functions
                               /\ Get(hist[i].post, 0) = Get(hist[1].post, 0)
                               /\ ("s0" \in hist[i].ran <=> i = 1)
    /\ fn = "nested" =>
          /\ Cardinality(Functions) <= 1
          /\ \A i \in Calls : \A j \in Calls :
                (j < i /\ "s1" \in hist[j].ran) =>
                    /\ "s1" \notin hist[i].ran
                    /\ Get(hist[i].post, 2) = Get(hist[j].post, 2)

\* the enclosing scope of component(a) ran twice, for two different values of a
C11_Witness ==
    /\ fn = "nested"
    /\ Len(hist) >= 2
    /\ "s0" \in hist[1].ran /\ "s1" \in hist[1].ran
    /\ "s0" \in hist[2].ran
    /\ hist[1].args # hist[2].args
    /\ Cardinality(Functions) = 1

\* how many times the external call e was made in the invocations so far
RECURSIVE CallCount(_, _)
CallCount(e, n) ==
    IF n = 0 THEN 0
    ELSE CallCount(e, n - 1)
           + Cardinality({k \in DOMAIN hist[n].eff : hist[n].eff[k] = e})

\* C12: compiled with enablePreserveExistingMemoizationGuarantees, Component
\* (useMemo-maybe-modified-later) keeps the useMemo callback's result in a
\* scope of its own without dependencies: over the invocations sharing one
\* cache makeObject_Primitives is called exactly once, every invocation
\* returns the same reference, and identity(object) runs outside the scope in
\* every invocation.
C12_PreservedMemoization ==
    (fn = "preserve_true" /\ hist # <<>>) =>
        /\ CallCount("makeObject_Primitives", Len(hist)) = 1
        /\ \A i \in Calls :
              /\ hist[i].out.k = "return" /\ IsRef(hist[i].out.v)
              /\ hist[i].out = hist[1].out
              /\ hist[i].out.v = Get(hist[i].post, 0)
              /\ hist[i].wr \subseteq {<<0, "s0">>}
              /\ CallCount("identity", i) = i
              /\ hist[i].eff[Len(hist[i].eff)] = "identity"

\* a third invocation has returned the object the first one made
C12_Witness ==
    /\ fn = "preserve_true"
    /\ Len(hist) >= 3
    /\ hist[3].ran = {}
    /\ hist[3].out = hist[1].out
    /\ hist[3].eff = <<"identity">>

\* how many times invocation r made the external call e
EffCount(r, e) == Cardinality({k \in DOMAIN r.eff : r.eff[k] = e})

\* C13: in compiled foo (obj-mutated-after-if-else-with-alias) the leading
\* call someObj(), whose result is unused, lies outside the reactive scope: it
\* is the first thing every invocation executes, exactly once, on a cache hit
\* as on a miss, and the scope's dependency check comes after it (an
\* invocation in which it throws never reads the cache).
C13_AlwaysInline ==
    fn = "foo" =>
        \A i \in Calls :
            /\ Len(hist[i].eff) >= 1
            /\ hist[i].eff[1] = "someObj"
            /\ EffCount(hist[i], "someObj") = 1 + (IF "s0" \in hist[i].ran THEN 1 ELSE 0)
            /\ hist[i].ext = <<"throws">> => (hist[i].rd = {} /\ hist[i].ran = {})
            /\ hist[i].ext = <<"returns">> => 0 \in hist[i].rd

\* a cache hit of foo after a miss: the hit called someObj once and nothing else
C13_Witness ==
    /\ fn = "foo"
    /\ Len(hist) >= 2
    /\ hist[1].ran = {"s0"}
    /\ hist[2].ran = {}
    /\ hist[2].out.k = "return"
    /\ hist[2].eff = <<"someObj">>

\* the structure of an array of strings
LogOf(items) == [kind |-> "array", keys |-> <<>>, vals |-> [i \in DOMAIN items |-> Str(items[i])]]

\* C14: in compiled useHook the renamed label bb3 denotes the block the source
\* labels bb0: `break bb3` skips the push of '@B' only and leaves neither the
\* switch case nor the reactive scope.  A miss with a truthy cond returns the
\* log ['@A','@C'], a miss with a falsy cond ['@A','@B','@C'], as the source
\* function does, and the miss stores cond and the log in $[0] and $[1].
C14_LabelRewriting ==
    fn = "useHook" =>
        \A i \in Calls :
            "s0" \in hist[i].ran =>
                /\ hist[i].out.k = "return"
                /\ hist[i].shape.v = (IF ToBoolean(hist[i].args[1])
                                      THEN LogOf(<<"@A", "@C">>)
                                      ELSE LogOf(<<"@A", "@B", "@C">>))
                /\ hist[i].shape = hist[i].orig
                /\ Get(hist[i].post, 0) = hist[i].args[1]
                /\ Get(hist[i].post, 1) = hist[i].out.v

\* a miss with cond true followed by a miss with cond false
C14_Witness ==
    /\ fn = "useHook"
    /\ Len(hist) >= 2
    /\ hist[1].args = <<Bool(TRUE)>> /\ "s0" \in hist[1].ran
    /\ hist[1].shape.v = LogOf(<<"@A", "@C">>)
    /\ hist[2].args = <<Bool(FALSE)>> /\ "s0" \in hist[2].ran
    /\ hist[2].shape.v = LogOf(<<"@A", "@B", "@C">>)

\* props.y[0] was undefined or an array in every invocation so far
C15_Inputs ==
    \A i \in Calls :
        \/ hist[i].args[1] = Undefined
        \/ (IsRef(hist[i].args[1]) /\ hist[i].args[2].kind = "array")

\* C15: when every props.y so far was an array whose first element is
\* undefined or an array, each invocation of try-catch-with-return's second
\* Component returns the x of the source `const [[x] = ["default"]] = props.y`:
\* "default" exactly when the first element is undefined, and otherwise the
\* first item that element has at the time of the call, whatever earlier
\* invocations cached.
C15_DestructuringDefault ==
    (fn = "trycatch2" /\ C15_Inputs) =>
        \A i \in Calls :
            /\ hist[i].shape = hist[i].orig
            /\ hist[i].out.k = "return"
            /\ hist[i].args[1] = Undefined => hist[i].out.v = Str("default")
            /\ hist[i].args[1] # Undefined =>
                  hist[i].out.v = (IF Len(hist[i].args[2].vals) > 0
                                   THEN hist[i].args[2].vals[1] ELSE Undefined)

\* undefined, then an array, then the same array with another first item (a
\* cache hit): "default", "item", "changed"
C15_Witness ==
    /\ fn = "trycatch2"
    /\ Len(hist) >= 3
    /\ hist[1].args[1] = Undefined /\ hist[1].out.v = Str("default")
    /\ hist[2].args[1] = Ref(3) /\ hist[2].out.v = Str("item")
    /\ hist[3].args[1] = Ref(3) /\ hist[3].ran = {} /\ hist[3].out.v = Str("changed")

Populated(i) ==
    LET S == {j \in Calls : j < i /\ "s0" \in hist[j].st}
    IN IF S = {} THEN 0 ELSE CHOOSE j \in S : \A k \in S : k <= j

PendingWork(st, ws, i) ==
    (IF \E k \in DOMAIN st : st[k].kind = "track" /\ st[k].id = i THEN 1 ELSE 0)
      + Cardinality({w \in DOMAIN ws : ws[w].st \in {"pending", "running"} /\ i \in ws[w].ints})

\* C18: for any nesting of track calls and wrapped callbacks,
\* onInteractionScheduledWorkCompleted is called for an interaction exactly
\* once, when its outstanding work (the track call and every wrapped callback
\* not yet run or canceled) drops to zero: not when a wrapped callback finishes
\* after scheduling more wrapped work for the interaction, and not while a
\* wrapped callback is outstanding.
C18_CompletedOnce ==
    fn = "InteractionTracking" =>
        \A i \in DOMAIN interactions :
            interactions[i].completed =
                (IF PendingWork(stack, wrappers, i) = 0 THEN 1 ELSE 0)

\* two wrapped callbacks of interaction 1 have run, the second after the
\* track call had ended, and the interaction was reported completed once
C18_Witness ==
    /\ fn = "InteractionTracking"
    /\ stack = <<>>
    /\ Len(wrappers) = 2
    /\ \A w \in DOMAIN wrappers : wrappers[w].st = "settled" /\ wrappers[w].ints = {1}
    /\ last.op = "wrapped"
    /\ interactions[1].count = 0
    /\ interactions[1].completed = 1

SubscriberErrors == {"onWorkStarted", "onWorkStopped", "onWorkCanceled"}

\* C19: when onWorkStarted, onWorkStopped or onWorkCanceled throws during
\* track, a wrapped call or wrapped.cancel, the error is re-thrown and every
\* interaction's __count still is what it would be without the error, the
\* number of its outstanding pieces of work (0 where that is none left); and
\* when onWorkScheduled throws inside wrap no __count changes.
C19_CountsSurviveErrors ==
    [][ /\ (last'.op \in {"track", "wrapped", "cancel"} /\ last'.err \in SubscriberErrors) =>
             \A i \in DOMAIN interactions' :
                 /\ interactions'[i].count = PendingWork(stack', wrappers', i)
                 /\ interactions'[i].count = 0 => interactions'[i].completed = 1
        /\ (last'.op = "wrap" /\ last'.err = "onWorkScheduled") =>
             (interactions' = interactions /\ wrappers' = wrappers)
      ]_vars

\* inside track(first): a wrapped callback of first and second threw from
\* onWorkStopped; first is back to 1, second reached 0
C19_Witness ==
    /\ fn = "InteractionTracking"
    /\ last = [op |-> "wrapped", err |-> "onWorkStopped"]
    /\ Len(stack) = 1 /\ stack[1].kind = "track" /\ stack[1].id = 1
    /\ Len(interactions) = 2
    /\ interactions[1].count = 1
    /\ interactions[2].count = 0 /\ interactions[2].completed = 1

\* C20: when track or a wrapped callback returns or throws, be the error
\* the callback's or a subscriber's (onInteractionTracked, onWorkStarted,
\* onWorkStopped), getCurrent() is again the set of interactions that was
\* current before the call.
C20_CurrentRestored ==
    [][ Len(stack') < Len(stack) => current' = stack[Len(stack)].before ]_vars

\* inside track(first): a nested track threw from onWorkStopped and the
\* current interactions are those of the outer call again
C20_Witness ==
    /\ fn = "InteractionTracking"
    /\ last = [op |-> "track", err |-> "onWorkStopped"]
    /\ Len(stack) = 1 /\ stack[1].kind = "track"
    /\ Len(interactions) = 2
    /\ current = {1}

(***************************************************************************)
(* Properties of ReactFiberCacheComponent.                                 *)
(***************************************************************************)
\* C21: a cache whose releaseCache calls never outnumbered its retainCache
\* calls has refCount = retains - releases, and controller.abort() has been
\* called once for each releaseCache call that brought refCount to 0 and by
\* no other call.
C21_CacheRelease ==
    \A c \in CacheIds :
        poolLog.refs[c].balanced =>
            /\ caches[c].refCount = poolLog.refs[c].retains - poolLog.refs[c].releases
            /\ caches[c].controller = poolLog.refs[c].zeroed

\* a cache retained, released, retained and released again: aborted twice
C21_Witness ==
    \E c \in CacheIds :
        /\ poolLog.refs[c].balanced
        /\ poolLog.refs[c].releases = 2
        /\ poolLog.refs[c].zeroed = 2
        /\ caches[c].refCount = 0
        /\ poolLog.op = "releaseCache"

\* C22: pushRootCachePool and requestCacheFromPool leave root.pooledCache and
\* root.pooledCacheLanes as they were; of the pool operations only
\* popRootCachePool writes to the FiberRoot.
C22_RootMutatedOnlyOnPop ==
    [][poolLog'.op \in {"pushRootCachePool", "requestCacheFromPool"} => root' = root]_vars

\* C23: in a render (from pushRootCachePool to popRootCachePool) in which no
\* spawned pool was restored, requestCacheFromPool has returned one Cache
\* only: the one the root had pooled, or else the one its first call
\* created, and it has called createCache at most once.
C23_OnePooledCachePerRender ==
    LET r == poolLog.render
    IN (r.active /\ ~r.restored) =>
          /\ Cardinality(r.got) <= 1
          /\ Cardinality(r.made) <= 1
          /\ r.rootWas # NullCache => (r.got \subseteq {r.rootWas} /\ r.made = {})
          /\ r.rootWas = NullCache => r.got = r.made

\* a render of a root without a pooled cache that requested a cache twice
C23_Witness ==
    /\ poolLog.render.active
    /\ ~poolLog.render.restored
    /\ poolLog.render.rootWas = NullCache
    /\ poolLog.render.asked = 2
    /\ poolLog.render.made # {}
    /\ poolLog.op = "requestCacheFromPool"

\* C24: popCachePool sets pooledCache to what it was just before the
\* restoreSpawnedCachePool it matches, and a restoreSpawnedCachePool that
\* returns null changes neither pooledCache nor prevFreshCacheOnStack.
C24_PoolStackDiscipline ==
    [][/\ poolLog'.op = "popCachePool" =>
             pooledCache' = poolLog.saved[Len(poolLog.saved)]
       /\ (poolLog'.op = "restoreSpawnedCachePool" /\ poolLog'.ret = NoCachePool) =>
             /\ pooledCache' = pooledCache
             /\ prevFreshCacheOnStack' = prevFreshCacheOnStack]_vars

\* an inner popCachePool that replaced the pooled cache by another one
C24_Witness ==
    /\ poolLog.op = "popCachePool"
    /\ prevFreshCacheOnStack # <<>>
    /\ pooledCache # NullCache
    /\ suspendedPooledCache # NullCache
    /\ suspendedPooledCache # pooledCache

(***************************************************************************)
(* Properties of ReactDOMEventListener.                                    *)
(***************************************************************************)
\* C25: a replayable discrete event passed to dispatchEvent while the listener
\* is enabled and the discrete replay queue is not empty is appended to the
\* queue with a null blocker, without attemptToDispatchEvent being called and
\* without any event system receiving it; and no discrete event that was
\* handed to an event system is younger than one still in the queue.
C25_DiscreteEventsInOrder ==
    [][/\ (/\ eventCall'.op = "dispatchEvent"
           /\ eventCall'.type = "click"
           /\ enabled
           /\ queuedDiscreteEvents # <<>>) =>
              /\ Len(queuedDiscreteEvents') = Len(queuedDiscreteEvents) + 1
              /\ SubSeq(queuedDiscreteEvents', 1, Len(queuedDiscreteEvents))
                    = queuedDiscreteEvents
              /\ queuedDiscreteEvents'[Len(queuedDiscreteEvents')].nativeEvent
                    = eventCall'.id
              /\ queuedDiscreteEvents'[Len(queuedDiscreteEvents')].blockedOn = NoBlocker
              /\ ~eventCall'.attempted
              /\ eventCall'.handoffs = <<>>
              /\ handled' = handled
       /\ \A i \in DOMAIN queuedDiscreteEvents' : \A h \in handled' :
              h.type = "click" => h.nativeEvent < queuedDiscreteEvents'[i].nativeEvent]_vars

\* a click queued behind a blocked one although nothing was found to block it
C25_Witness ==
    /\ eventCall.op = "dispatchEvent"
    /\ eventCall.type = "click"
    /\ eventCall.queued = "discrete"
    /\ ~eventCall.attempted
    /\ Len(queuedDiscreteEvents) >= 2
    /\ queuedDiscreteEvents[Len(queuedDiscreteEvents)].blockedOn = NoBlocker
    /\ queuedDiscreteEvents[Len(queuedDiscreteEvents)].nativeEvent = eventCall.id
    /\ \E h \in handled : h.type = "click"

\* the event systems a call handed its event to
HandoffsTo(system) == {i \in DOMAIN eventCall.handoffs : eventCall.handoffs[i].system = system}

\* C26 as stated: a dispatchEvent call hands its native event to an event
\* system at most once.
C26_AtMostOneHandoff ==
    eventCall.op = "dispatchEvent" => Len(eventCall.handoffs) <= 1

\* C26: a dispatchEvent call hands its native event to each event system its
\* flags name at most once, and to none while the listener is disabled or
\* when it queued the event for replay; attemptToDispatchEvent has handed it
\* to no event system when it returns a blocker and to at least one when it
\* returns null.
C26_NoDoubleDispatch ==
    eventCall.op = "dispatchEvent" =>
        /\ \A e \in DOMAIN eventCall.handoffs : Cardinality(HandoffsTo(eventCall.handoffs[e].system)) = 1
        /\ (~enabled \/ eventCall.queued # "no") => eventCall.handoffs = <<>>
        /\ eventCall.attempted =>
              (eventCall.blockedOn # NoBlocker <=> eventCall.attempt = <<>>)

\* a blocked event that is not replayable, handed without a target to the
\* two event systems of its flags
C26_Witness ==
    /\ eventCall.op = "dispatchEvent"
    /\ eventCall.type = "scroll"
    /\ eventCall.attempted
    /\ eventCall.blockedOn # NoBlocker
    /\ Len(eventCall.handoffs) = 2

(***************************************************************************)
(* Properties of ReactDOMFloatServer.                                      *)
(***************************************************************************)
\* C27: no step lowers the priority of a Resource that is in the map or
\* removes it; a step that raises its priority leaves it with flushed =
\* false; and a call of a Float function after which its priority is what it
\* was (a call at a lower or equal priority, or for another key) leaves the
\* whole Resource, its as and flushed included, as it was.
C27_PriorityOnlyRises ==
    [][\A k \in DOMAIN resourceMap :
          /\ k \in DOMAIN resourceMap'
          /\ resourceMap'[k].priority >= resourceMap[k].priority
          /\ resourceMap'[k].priority > resourceMap[k].priority =>
                ~resourceMap'[k].flushed
          /\ (/\ floatCall'.op \in FloatFunctions
              /\ resourceMap'[k].priority = resourceMap[k].priority) =>
                resourceMap'[k] = resourceMap[k]]_vars

\* a stylesheet that had been flushed as a lesser resource is preinitialized
C27_Witness ==
    /\ floatCall.op = "preinit"
    /\ floatCall.wasFlushed
    /\ \E k \in DOMAIN resourceMap :
          /\ resourceMap[k].priority = PREINIT
          /\ resourceMap[k].as = STYLE_RESOURCE
          /\ ~resourceMap[k].flushed

C29_SingleScheduledCallback ==
    [][/\ (noopLog'.op = "scheduleDeferredCallback" /\ scheduledCallback # NoCallback) =>
             /\ noopLog'.err = "Scheduling a callback twice is excessive"
             /\ scheduledCallback' = scheduledCallback
       /\ (noopLog'.op = "scheduleDeferredCallback" /\ scheduledCallback = NoCallback) =>
             /\ noopLog'.err = NoError
             /\ scheduledCallback' = Len(noopLog'.invoked)
       /\ flushing'.cb # NoCallback => scheduledCallback' # flushing'.cb
       /\ \A c \in DOMAIN noopLog'.invoked : noopLog'.invoked[c] <= 1]_vars

\* a running callback has scheduled its successor
C29_Witness ==
    /\ noopLog.op = "scheduleDeferredCallback"
    /\ noopLog.err = NoError
    /\ flushing.cb # NoCallback
    /\ scheduledCallback # NoCallback
    /\ noopLog.invoked[flushing.cb] = 1

(***************************************************************************)
(* The compiled functions again: a scope body that throws.                 *)
(***************************************************************************)
\* C30: in compiled component (capturing-function-decl) and compiled useFoo
\* (the emit-freeze fixture) an invocation whose scope body throws passes the
\* exception on to its caller and has written no cache slot, and the next
\* invocation, given the same argument, finds the cache as the throwing one
\* found it and executes the body again.
C30_ThrowLeavesCache ==
    fn \in {"capturing_decl", "freeze_useFoo"} =>
        \A i \in Calls :
            LET r == hist[i]
            IN /\ (r.ran = {"s0"} /\ r.ext[1] = "throws") =>
                     /\ r.out.k = "throw"
                     /\ r.wr = {}
                     /\ r.st = {}
                     /\ r.post = r.pre
               /\ (r.out.k = "throw" /\ i + 1 \in Calls /\ hist[i + 1].args = r.args) =>
                     /\ hist[i + 1].pre = r.pre
                     /\ hist[i + 1].ran = {"s0"}
                     /\ hist[i + 1].eff # <<>>

\* t.foo() threw in the first invocation; the second, given the same
\* argument, ran the body to completion and stored its result
C30_Witness ==
    /\ fn = "capturing_decl"
    /\ Len(hist) >= 2
    /\ hist[1].out.k = "throw"
    /\ hist[2].args = hist[1].args
    /\ hist[2].out.k = "return"
    /\ hist[2].st = {"s0"}
    /\ hist[2].post # hist[2].pre

====
